---- MODULE Spec2Model ----
(***************************************************************************)
(* Model of the request pipeline of @etsoo/restclient (ApiBase.request,    *)
(* ApiBase.handleError and the observer callbacks) as a state machine.     *)
(* One client instance, calls running in slots; a call is cut into the     *)
(* segments that the JavaScript event loop runs atomically: from the       *)
(* invocation of request() to its first await, from one await to the next. *)
(* The pure functions of the client (the header and content type          *)
(* functions, buildUrl, formatData, mergeConfig, the decoding of the       *)
(* adapters, responsePromiseHandler) are operators, each with a            *)
(* specification of its own that applies it to drawn inputs.               *)
(***************************************************************************)
EXTENDS Integers, Sequences, FiniteSets, TLC

(* ---------------------------------------------------------------------- *)
(* Bounds                                                                  *)
(* ---------------------------------------------------------------------- *)

\* total number of calls of request() made on the client in one behaviour
MaxCalls == 2

\* the calls that may be in flight at once, each slot runs one call at a time
Slots == {"A", "B"}

(* ---------------------------------------------------------------------- *)
(* Inputs                                                                  *)
(* ---------------------------------------------------------------------- *)

\* ApiMethod
BodyMethods == {"PATCH", "POST", "PUT"}
Methods == {"DELETE", "GET", "HEAD", "OPTIONS"} \cup BodyMethods

\* shapes of the data argument of request(): none (undefined), a boxed
\* String, a FormData, a plain object, a plain object JSON.stringify throws
\* on (circular), an array, a URLSearchParams
DataKinds == {"none", "String", "FormData", "Object", "Circular", "Array",
              "URLSearchParams"}

\* what a per-call onError handler returns (IApiErrorHandler), "none" when
\* the payload registers no handler
LocalHandlers == {"none", "false", "true", "undefined"}

\* IApiPayload as far as request() branches on it: is a payload passed, its
\* onError handler, is a parser passed, is a defaultValue passed.  The
\* fields are readonly and request() uses each of them at one place, so the
\* model draws a field where request() uses it and records it in the call.
NoPayload == [present |-> FALSE, onError |-> "none", parser |-> FALSE,
              defaultValue |-> FALSE]

\* the onError handlers a call may have registered
LocalHandlersOf(payload) ==
    IF payload.present THEN LocalHandlers ELSE {"none"}

\* the values a boolean option of the payload (parser, defaultValue) may take
OptionsOf(payload) ==
    IF payload.present THEN BOOLEAN ELSE {FALSE}

(* ---------------------------------------------------------------------- *)
(* State                                                                   *)
(* ---------------------------------------------------------------------- *)

VARIABLES
    onError,      \* client.onError is registered
    onRequest,    \* client.onRequest is registered
    onComplete,   \* client.onComplete is registered
    onResponse,   \* client.onResponse is registered
    lastError,    \* client.lastErrorPrivate
    calls,        \* slot -> the call in flight in it, or the call that
                  \* completed last on the client, as its caller sees it
    started,      \* number of calls made so far
    lastWriter,   \* history: id of the call that wrote lastError last
    completed,    \* history: the calls that ended, in the order they ended,
                  \* did they fail, did they store an error in lastError
    statuses,     \* the status codes the server answers with
    outcome,      \* responsePromiseHandler alone: the adapter and how the
                  \* promise it is applied to settles
    classified,   \* responsePromiseHandler alone: what it settled with
    headers,      \* header functions alone: a headers container
    written,      \* header functions alone: the last setHeaderValue on it
    charset,      \* client.charset
    contentType,  \* header functions alone: the last setContentType
    baseUrl,      \* client.baseUrl
    built,        \* buildUrl alone: the last buildUrl
    localParams,  \* formatData alone: the query parameters
    formatted,    \* formatData alone: the last formatData and what request
                  \* makes of it
    config,       \* client.config, the default configuration
    merged,       \* mergeConfig alone: the last call and its merge
    authorized,   \* authorize alone: the last authorize
    contentLength \* getContentLength alone: the last getContentLength

vars == <<onError, onRequest, onComplete, onResponse, lastError, calls,
          started, lastWriter, completed, statuses, outcome, classified,
          headers, written, charset, contentType,
          baseUrl, built,
          localParams, formatted,
          config, merged, authorized, contentLength>>

\* the state of the specifications of the pure functions
classifyVars == <<outcome, classified>>
headerVars == <<headers, written, charset, contentType>>
urlVars == <<baseUrl, built>>
formatVars == <<localParams, formatted>>
configVars == <<config, merged>>
authVars == <<authorized>>
lengthVars == <<contentLength>>

\* what request() leaves alone: the server and the state of the
\* specifications of the pure functions
otherVars == <<statuses, classifyVars, headerVars, urlVars, formatVars,
               configVars, authVars, lengthVars>>

\* lastErrorPrivate = undefined
NoError == [call |-> 0, n |-> 0, depth |-> -1, resp |-> FALSE]

\* new ApiDataError(error, data, response): the call it belongs to, its
\* number among the errors of that call, data.depth, response present
ApiDataError(id, n, depth, resp) ==
    [call |-> id, n |-> n, depth |-> depth, resp |-> resp]

\* one observable event of a call: a callback invocation or a pipeline step,
\* with apiData.depth at that moment, whether a response is passed, and the
\* number of the ApiDataError passed (0 when none)
Ev(e, depth, resp, err) == [e |-> e, depth |-> depth, resp |-> resp, err |-> err]

\* an error that is no ApiDataError and belongs to no call
TypeError == [call |-> -1, n |-> 0, depth |-> -1, resp |-> FALSE]

\* a call: where it is, its Call Record's depth, what the transport gave
\* (response, ok, error, and status: the status of the response, -1 that of
\* the ApiError of a rejection, 0 none), its observable events, how its
\* promise settled, and failure, the stage it failed at as its inputs and
\* its transport decide it: "format" (formatData returned an error),
\* "network" (the transport rejected), "http" (response not ok), "parser"
\* (the parser returned an error), "decode" (decoding or the parser threw),
\* "none".  Of a decoded response: noContent (its body is empty,
\* content-length 0), raw (what responseData gave: "value", "empty" for null
\* or '', "throws") and parsed (what the parser returned: "error", "value",
\* "falsy" for a value such as 0, '' or false, "noValue", or "throws");
\* raw is "pending", and so is pc, when responseData never settles.
\* Of a response that is not ok: errorBody (what reading its body as JSON
\* for the error message gave: "value", "empty" or "throws")
IdleCall == [pc |-> "idle", id |-> 0, payload |-> NoPayload, depth |-> -1,
             response |-> FALSE, ok |-> FALSE, error |-> FALSE, status |-> 0,
             noContent |-> FALSE, raw |-> "none", parsed |-> "none",
             errorBody |-> "none",
             log |-> << >>, result |-> "pending",
             thrown |-> NoError, failure |-> "none"]

(* ---------------------------------------------------------------------- *)
(* formatData                                                              *)
(* ---------------------------------------------------------------------- *)

\* formatData(method, headers, params, data, contentType): the error it
\* returns as second element ("none" when undefined).  jsonType: the
\* content type (override or header) is JSON-like; hasParams: params holds
\* at least one key.
FormatData(method, data, hasParams, jsonType) ==
    IF data = "none" THEN "none"
    ELSE IF method \in BodyMethods THEN
        IF data = "String" THEN "none"
        ELSE IF data = "FormData" THEN "none"
        ELSE IF data \in {"Object", "Circular"} \/ jsonType THEN
            \* JSON.stringify(data) inside try/catch
            IF data = "Circular" THEN "exception" ELSE "none"
        ELSE "none"
    ELSE IF hasParams THEN "params"
    ELSE IF data = "URLSearchParams" THEN "none"
    ELSE IF data = "Object" THEN "none"
    ELSE "type"

\* what formatData can return as its error, over every verb, data shape,
\* state of the query parameters and kind of content type
FormatErrors ==
    {FormatData(method, data, hasParams, jsonType) :
        method \in Methods, data \in DataKinds, hasParams \in BOOLEAN,
        jsonType \in BOOLEAN}

\* variant: only an exception caught while formatting counts as an error
FormatFailedOnException(formattedError) == formattedError = "exception"

\* if (formattedError)
FormatFailed(formattedError) == formattedError # "none"

(* ---------------------------------------------------------------------- *)
(* callbacks                                                               *)
(* ---------------------------------------------------------------------- *)

\* if (this.onRequest) this.onRequest(apiData)
DispatchRequestCallback(registered) ==
    IF registered THEN <<Ev("onRequest", -1, FALSE, 0)>> ELSE << >>

\* dispatchCompleteCallback(data, response)
DispatchCompleteCallback(registered, resp) ==
    IF registered THEN <<Ev("onComplete", -1, resp, 0)>> ELSE << >>

\* dispatchResponseCallback(data, response)
DispatchResponseCallback(registered, resp) ==
    IF resp /\ registered THEN <<Ev("onResponse", -1, resp, 0)>> ELSE << >>

\* variant: the response is not kept in the payload
StoreResponseNever(payload) == << >>

\* if (payload != null) payload.response = response
StoreResponse(payload) ==
    IF payload.present THEN <<Ev("store", -1, TRUE, 0)>> ELSE << >>

\* this.lastErrorPrivate = undefined, at the start of request()
ResetLastError(le) == NoError

\* the handlers handleError invokes, in order
Handlers(localDoError, globalOnError, depth, resp, n) ==
    (IF localDoError # "none"
     THEN <<Ev("localOnError", depth, resp, n)>> ELSE << >>)
    \o (IF localDoError = "false" THEN << >>
        ELSE IF globalOnError
        THEN <<Ev("globalOnError", depth, resp, n)>> ELSE << >>)

\* variant: without any handler the error is dropped instead of thrown
HandleErrorSilent(le, id, n, depth, resp, localDoError, globalOnError) ==
    LET dataError == ApiDataError(id, n, depth, resp)
    IN  [error |-> dataError, lastError |-> dataError, thrown |-> FALSE,
         events |-> <<Ev("handleError", depth, resp, n)>>
                    \o Handlers(localDoError, globalOnError, depth, resp, n)]

\* variant: a per-call handler returning false does not stop the global one
HandleErrorIgnoresFalse(le, id, n, depth, resp, localDoError, globalOnError) ==
    LET dataError == ApiDataError(id, n, depth, resp)
        unhandled == localDoError = "none" /\ ~globalOnError
    IN  [error |-> dataError, lastError |-> dataError, thrown |-> unhandled,
         events |-> <<Ev("handleError", depth, resp, n)>>
            \o (IF unhandled THEN <<Ev("throw", depth, resp, n)>>
                ELSE (IF localDoError # "none"
                      THEN <<Ev("localOnError", depth, resp, n)>> ELSE << >>)
                     \o (IF globalOnError
                         THEN <<Ev("globalOnError", depth, resp, n)>>
                         ELSE << >>))]

\* variant: the global handler runs before the per-call handler
HandleErrorGlobalFirst(le, id, n, depth, resp, localDoError, globalOnError) ==
    LET dataError == ApiDataError(id, n, depth, resp)
        unhandled == localDoError = "none" /\ ~globalOnError
    IN  [error |-> dataError, lastError |-> dataError, thrown |-> unhandled,
         events |-> <<Ev("handleError", depth, resp, n)>>
            \o (IF unhandled THEN <<Ev("throw", depth, resp, n)>>
                ELSE (IF globalOnError
                      THEN <<Ev("globalOnError", depth, resp, n)>> ELSE << >>)
                     \o (IF localDoError # "none"
                         THEN <<Ev("localOnError", depth, resp, n)>>
                         ELSE << >>))]

\* variant: the error is cached only after the check that throws it
HandleErrorCacheIfHandled(le, id, n, depth, resp, localDoError, globalOnError) ==
    LET dataError == ApiDataError(id, n, depth, resp)
        unhandled == localDoError = "none" /\ ~globalOnError
    IN  [error |-> dataError,
         lastError |-> IF unhandled THEN le ELSE dataError,
         thrown |-> unhandled,
         events |-> <<Ev("handleError", depth, resp, n)>>
            \o (IF unhandled THEN <<Ev("throw", depth, resp, n)>>
                ELSE Handlers(localDoError, globalOnError, depth, resp, n))]

\* variant: the ApiDataError is built without the response
HandleErrorNoResponse(le, id, n, depth, resp, localDoError, globalOnError) ==
    LET dataError == ApiDataError(id, n, depth, FALSE)
        unhandled == localDoError = "none" /\ ~globalOnError
    IN  [error |-> dataError, lastError |-> dataError, thrown |-> unhandled,
         events |-> <<Ev("handleError", depth, resp, n)>>
            \o (IF unhandled THEN <<Ev("throw", depth, FALSE, n)>>
                ELSE Handlers(localDoError, globalOnError, depth, FALSE, n))]

\* variant: an error that is cached already is taken for the one of the call
HandleErrorReusesCached(le, id, n, depth, resp, localDoError, globalOnError) ==
    LET dataError == IF le # NoError THEN le
                     ELSE ApiDataError(id, n, depth, resp)
        unhandled == localDoError = "none" /\ ~globalOnError
    IN  [error |-> dataError, lastError |-> dataError, thrown |-> unhandled,
         events |-> <<Ev("handleError", depth, resp, n)>>
            \o (IF unhandled THEN <<Ev("throw", depth, resp, n)>>
                ELSE Handlers(localDoError, globalOnError, depth, resp, n))]

\* handleError(error, data, response, localDoError) with lastErrorPrivate
\* holding le: the ApiDataError it builds, the new lastErrorPrivate, whether
\* it throws, and the handlers it invokes
HandleError(le, id, n, depth, resp, localDoError, globalOnError) ==
    LET dataError == ApiDataError(id, n, depth, resp)
        enter == <<Ev("handleError", depth, resp, n)>>
    IN  IF localDoError = "none" /\ ~globalOnError
        THEN [error |-> dataError, lastError |-> dataError, thrown |-> TRUE,
              events |-> enter \o <<Ev("throw", depth, resp, n)>>]
        ELSE [error |-> dataError, lastError |-> dataError, thrown |-> FALSE,
              events |->
                enter \o Handlers(localDoError, globalOnError, depth, resp, n)]

(* ---------------------------------------------------------------------- *)
(* headers                                                                 *)
(* ---------------------------------------------------------------------- *)

\* longest headers container a behaviour starts with
MaxHeaders == 2

\* header names, in their case variants, and header values; ct, Ct and CT
\* stand for content-type, Content-Type and CONTENT-TYPE
HeaderNames == {"ct", "Ct", "CT", "x", "X"}
HeaderValues == {"v1", "v2"}

\* String.prototype.toLowerCase
ToLowerCase(name) ==
    CASE name \in {"ct", "Ct", "CT"} -> "ct"
      [] name \in {"x", "X"} -> "x"
      [] name \in {"authorization", "Authorization", "AUTHORIZATION"}
            -> "authorization"
      [] name \in {"content-length", "Content-Length", "CONTENT-LENGTH"}
            -> "content-length"
      [] OTHER -> name

\* HeadersAll: an array of [key, value] pairs, a Headers object, a plain
\* object
Representations == {"array", "Headers", "object"}

\* a headers container: its representation and its entries in the order of
\* the array, of the iteration of the Headers object, of Object.keys
HeadersOf(representation, entries) ==
    [rep |-> representation, entries |-> entries]

NoHeaders == HeadersOf("none", << >>)

\* no setHeaderValue yet
NoWrite == [key |-> "", value |-> "", had |-> FALSE, count |-> 0]

\* index of the first entry whose key is key in lower case, 0 for none:
\* findIndex((item) => item[0].toLowerCase() === key)
FindIndex(entries, key) ==
    IF \E i \in DOMAIN entries : ToLowerCase(entries[i][1]) = key
    THEN CHOOSE i \in DOMAIN entries :
            /\ ToLowerCase(entries[i][1]) = key
            /\ \A j \in 1..(i - 1) : ToLowerCase(entries[j][1]) # key
    ELSE 0

\* splice(index, 1)
Splice(entries, index) ==
    SubSeq(entries, 1, index - 1) \o SubSeq(entries, index + 1, Len(entries))

\* isIterable: Symbol.iterator in headers, true of an array and of a
\* Headers object
IsIterable(h) == h.rep \in {"array", "Headers"}

\* getHeaderValue(headers, key), "null" for null
GetHeaderValue(h, key) ==
    LET index == FindIndex(h.entries, ToLowerCase(key))
    IN  IF index = 0 THEN "null" ELSE h.entries[index][2]

\* the entries after a write of value under matchKey at index (0: no entry
\* yet); an empty value removes the entry
WriteEntry(entries, index, matchKey, value) ==
    IF value # ""
    THEN IF index = 0 THEN Append(entries, <<matchKey, value>>)
         ELSE [entries EXCEPT ![index][2] = value]
    ELSE IF index # 0 THEN Splice(entries, index)
    ELSE entries

\* setHeaderValue(key, value, headers): the container afterwards, "" for
\* an empty, null or undefined value.  An iterable that is no array is
\* copied by Array.from and the copy is written
SetHeaderValue(key, value, h) ==
    LET k == ToLowerCase(key)
        index == FindIndex(h.entries, k)
    IN  IF IsIterable(h)
        THEN IF h.rep = "array"
             THEN HeadersOf(h.rep, WriteEntry(h.entries, index, k, value))
             ELSE h
        ELSE HeadersOf(h.rep,
                WriteEntry(h.entries, index,
                           IF index # 0 THEN h.entries[index][1] ELSE k,
                           value))

\* the sequences of at most n entries with values of a set
EntriesWith(n, values) ==
    UNION {[1..m -> HeaderNames \X values] : m \in 0..n}

\* the keys of a Headers object are in lower case, those of a Headers
\* object and of a plain object differ from one another
WellFormed(h) ==
    /\ h.rep = "Headers" =>
            \A i \in DOMAIN h.entries :
                h.entries[i][1] = ToLowerCase(h.entries[i][1])
    /\ h.rep \in {"Headers", "object"} =>
            \A i, j \in DOMAIN h.entries :
                h.entries[i][1] = h.entries[j][1] => i = j

\* String.prototype.includes
Includes(s, sub) ==
    \E i \in 1..(Len(s) - Len(sub) + 1) : SubSeq(s, i, i + Len(sub) - 1) = sub

\* String.prototype.startsWith, endsWith
StartsWith(s, sub) == Len(s) >= Len(sub) /\ SubSeq(s, 1, Len(sub)) = sub
EndsWith(s, sub) ==
    Len(s) >= Len(sub) /\ SubSeq(s, Len(s) - Len(sub) + 1, Len(s)) = sub

\* String.prototype.indexOf, from 1, of a string that includes sub
IndexOf(s, sub) ==
    CHOOSE i \in 1..(Len(s) - Len(sub) + 1) :
        /\ SubSeq(s, i, i + Len(sub) - 1) = sub
        /\ \A j \in 1..(i - 1) : SubSeq(s, j, j + Len(sub) - 1) # sub

\* String.prototype.split, sep of one character
RECURSIVE Split(_, _)
Split(s, sep) ==
    IF ~Includes(s, sep) THEN <<s>>
    ELSE <<SubSeq(s, 1, IndexOf(s, sep) - 1)>>
            \o Split(SubSeq(s, IndexOf(s, sep) + 1, Len(s)), sep)

\* String.prototype.trim
RECURSIVE Trim(_)
Trim(s) ==
    IF s = "" THEN s
    ELSE IF Head(s) = " " THEN Trim(Tail(s))
    ELSE IF SubSeq(s, Len(s), Len(s)) = " " THEN Trim(SubSeq(s, 1, Len(s) - 1))
    ELSE s

\* ApiBase.ContentTypeKey, "Content-Type"
ContentTypeKey == "Ct"

\* client.charset: 'utf-8' unless the application sets another
DefaultCharset == "utf-8"

\* content types passed to setContentType, "" for an empty, null or
\* undefined one, and content types a container holds already
ContentTypes == {"", "application/json", "application/json; charset=gbk",
                 "text/plain; format=flowed"}
HeldContentTypes == {"application/problem+json", "text/xml;charset=gbk"}

\* no setContentType yet
NoContentType == [set |-> FALSE, type |-> ""]

\* getContentType(headers), "null" for null
GetContentType(h) == GetHeaderValue(h, ContentTypeKey)

\* getContentTypeAndCharset(headers), "undefined" for undefined
GetContentTypeAndCharset(h) ==
    LET type == GetContentType(h)
        parts == Split(type, ";")
    IN  IF type # "null" /\ type # ""
        THEN <<Trim(parts[1]),
               IF Len(parts) > 1 THEN Trim(parts[2]) ELSE "undefined">>
        ELSE <<"", "undefined">>

\* the value setContentType(contentType, headers) writes
ContentTypeValue(type, cs) ==
    IF type # "" /\ ~Includes(type, "charset=")
    THEN type \o "; charset=" \o cs
    ELSE type

\* setContentType(contentType, headers) of a client with charset cs: the
\* container afterwards
SetContentTypeOf(type, cs, h) ==
    SetHeaderValue(ContentTypeKey, ContentTypeValue(type, cs), h)

\* a number, NaN, and undefined
Number(n) == [t |-> "number", n |-> n]
NaN == [t |-> "NaN", n |-> 0]
Undefined == [t |-> "undefined", n |-> 0]

\* the value of a digit in a radix, -1 for any other character
DigitValue(c, radix) ==
    LET v == CASE c = "0" -> 0 [] c = "1" -> 1 [] c = "2" -> 2 [] c = "3" -> 3
               [] c = "4" -> 4 [] c = "5" -> 5 [] c = "6" -> 6 [] c = "7" -> 7
               [] c = "8" -> 8 [] c = "9" -> 9
               [] c \in {"a", "A"} -> 10 [] c \in {"b", "B"} -> 11
               [] c \in {"c", "C"} -> 12 [] c \in {"d", "D"} -> 13
               [] c \in {"e", "E"} -> 14 [] c \in {"f", "F"} -> 15
               [] OTHER -> -1
    IN  IF v < radix THEN v ELSE -1

\* the value of the digits a string starts with, read after the value acc
\* of the digits before them
RECURSIVE LeadingDigits(_, _, _)
LeadingDigits(s, radix, acc) ==
    IF s = "" \/ DigitValue(SubSeq(s, 1, 1), radix) = -1 THEN acc
    ELSE LeadingDigits(Tail(s), radix,
                       acc * radix + DigitValue(SubSeq(s, 1, 1), radix))

\* parseInt(text): white space is skipped, then a sign, then '0x' for the
\* radix 16, then the digits are read up to the first character that is
\* none; NaN when there is no digit
ParseInt(text) ==
    LET t == Trim(text)
        signed == StartsWith(t, "-") \/ StartsWith(t, "+")
        u == IF signed THEN Tail(t) ELSE t
        hex == StartsWith(u, "0x") \/ StartsWith(u, "0X")
        digits == IF hex THEN SubSeq(u, 3, Len(u)) ELSE u
        radix == IF hex THEN 16 ELSE 10
        n == LeadingDigits(digits, radix, 0)
    IN  IF digits = "" \/ DigitValue(SubSeq(digits, 1, 1), radix) = -1
        THEN NaN
        ELSE Number(IF StartsWith(t, "-") THEN 0 - n ELSE n)

\* getContentLength(headers)
GetContentLength(h) ==
    LET cl == GetHeaderValue(h, "content-length")
    IN  IF cl = "null" \/ cl = "" THEN Undefined ELSE ParseInt(cl)

\* no getContentLength yet
NoContentLength == [done |-> FALSE, result |-> Undefined]

\* the values of a content-length header
ContentLengths ==
    {"0", "123", " 42", "12abc", "1.5", "abc", "-5", "0x1F", "1e3", "+7",
     "", " "}

(* ---------------------------------------------------------------------- *)
(* buildUrl                                                                *)
(* ---------------------------------------------------------------------- *)

\* client.baseUrl: undefined, or a string the application sets
NoBaseUrl == "undefined"
BaseUrls == {NoBaseUrl, "", "http://localhost", "https://api.etsoo.com/v1",
             "/api"}

\* the urls passed to buildUrl: absolute ones, paths, and paths with '://'
\* in a query parameter
Urls ==
    {origin \o path :
        origin \in {"", "http://localhost", "https://h", "ftp://h", "//h"},
        path \in {"", "/", "/Customer/CountryList/11", "Customer",
                  "/x?next=http://h"}}

\* no buildUrl yet
NoBuilt == [done |-> FALSE, url |-> "", result |-> ""]

\* buildUrl(url) that takes the base url whatever the url is
BuildUrlAlways(base, url) ==
    IF base # NoBaseUrl /\ base # "" THEN base \o url ELSE url

\* buildUrl(url) of a client with baseUrl base
BuildUrl(base, url) ==
    IF ~Includes(url, "://") /\ base # NoBaseUrl /\ base # ""
    THEN base \o url
    ELSE url

(* ---------------------------------------------------------------------- *)
(* formatData in detail: the body, the content type, the query parameters  *)
(* ---------------------------------------------------------------------- *)

\* values of the fields of a payload: their type, and their text as
\* toString gives it; "array" is a nested array, "circular" a reference to
\* the payload itself
Field(t, v) == [t |-> t, v |-> v]

\* ApiRequestData: the kind of a payload, its fields, items or entries in
\* order as <<key, value>>, and the text of a string
Data(kind, fields, text) == [kind |-> kind, fields |-> fields, text |-> text]

NoData == Data("none", << >>, "")

Datas ==
    {NoData,
     Data("Object", <<<<"id", Field("number", "1")>>,
                      <<"name", Field("string", "test")>>>>, ""),
     Data("Object", <<<<"id", Field("number", "2")>>,
                      <<"age", Field("null", "")>>,
                      <<"other", Field("undefined", "")>>,
                      <<"ok", Field("boolean", "true")>>>>, ""),
     Data("Object", <<<<"items", Field("array", "[]")>>>>, ""),
     Data("Object", <<<<"id", Field("number", "1")>>,
                      <<"self", Field("circular", "")>>>>, ""),
     Data("Array", <<<<"0", Field("number", "1")>>,
                     <<"1", Field("undefined", "")>>>>, ""),
     Data("URLSearchParams", <<<<"id", Field("string", "2")>>,
                               <<"name", Field("string", "test")>>>>, ""),
     Data("URLSearchParams", <<<<"id", Field("string", "2")>>,
                               <<"id", Field("string", "3")>>>>, ""),
     Data("String", << >>, "{\"id\":1}"),
     Data("String", << >>, "<a/>"),
     Data("String", << >>, "id=1"),
     Data("FormData", << >>, ""),
     Data("FileList", << >>, ""),
     Data("ArrayBufferView", << >>, "")}


\* DomUtils.isJSONContentType
IsJSONContentType(type) ==
    type # "" /\ (Includes(type, "json")
                    \/ StartsWith(type, "application/javascript"))

\* isSimpleType: a Date or a primitive
IsSimpleType(x) == x.t \notin {"array", "circular"}

\* DataTypes.isSimpleObject
IsSimpleObject(data) ==
    /\ data.kind = "Object"
    /\ \A i \in DOMAIN data.fields : IsSimpleType(data.fields[i][2])

\* Array.prototype.join
RECURSIVE Join(_, _)
Join(texts, sep) ==
    IF texts = << >> THEN ""
    ELSE IF Len(texts) = 1 THEN texts[1]
    ELSE texts[1] \o sep \o Join(Tail(texts), sep)

\* the text JSON.stringify gives for a value
JsonValue(x) ==
    CASE x.t = "string" -> "\"" \o x.v \o "\""
      [] x.t \in {"null", "undefined"} -> "null"
      [] OTHER -> x.v

\* the fields whose value is not undefined, in order
RECURSIVE DefinedFields(_)
DefinedFields(fields) ==
    IF fields = << >> THEN << >>
    ELSE (IF Head(fields)[2].t # "undefined" THEN <<Head(fields)>> ELSE << >>)
            \o DefinedFields(Tail(fields))

\* variant: JSON.stringify(data) writes a circular structure
StringifyThrowsNever(data) == FALSE

\* JSON.stringify(data) throws a TypeError on a circular structure
StringifyThrows(data) ==
    \E i \in DOMAIN data.fields : data.fields[i][2].t = "circular"

\* JSON.stringify(data): an object leaves out its undefined fields, an array
\* writes null for them; an object without enumerable fields of its own gives
\* {}, a view its items by index
JSONStringify(data) ==
    LET fields == DefinedFields(data.fields)
    IN  CASE data.kind = "Object" ->
                "{" \o Join([i \in DOMAIN fields |->
                                "\"" \o fields[i][1] \o "\":"
                                    \o JsonValue(fields[i][2])], ",") \o "}"
          [] data.kind = "Array" ->
                "[" \o Join([i \in DOMAIN data.fields |->
                                JsonValue(data.fields[i][2])], ",") \o "]"
          [] data.kind = "String" -> "\"" \o data.text \o "\""
          [] OTHER -> "{}"

\* what formatData returns as its first element: undefined, a string, or
\* an object: the payload itself ("data"), a FormData made of the files of a
\* FileList ("FormData"), the buffer of a view ("buffer")
Body(kind, text) == [kind |-> kind, text |-> text]
NoBody == Body("undefined", "")

\* URLSearchParams, as its entries in order; get, null as "null"
ParamKeys(params) == {params[i][1] : i \in DOMAIN params}
ParamGet(params, key) ==
    IF key \in ParamKeys(params)
    THEN params[CHOOSE i \in DOMAIN params :
                    /\ params[i][1] = key
                    /\ \A j \in 1..(i - 1) : params[j][1] # key][2]
    ELSE "null"

\* the entries of other keys, in order
RECURSIVE ParamDelete(_, _)
ParamDelete(params, key) ==
    IF params = << >> THEN << >>
    ELSE (IF Head(params)[1] # key THEN <<Head(params)>> ELSE << >>)
            \o ParamDelete(Tail(params), key)

\* variant: URLSearchParams.append
ParamAppend(params, key, value) == Append(params, <<key, value>>)

\* URLSearchParams.set: the first entry of the key takes the value and the
\* others of the key go, a new key is appended
ParamSet(params, key, value) ==
    IF key \in ParamKeys(params)
    THEN LET first == CHOOSE i \in DOMAIN params :
                        /\ params[i][1] = key
                        /\ \A j \in 1..(i - 1) : params[j][1] # key
         IN  SubSeq(params, 1, first - 1) \o <<<<key, value>>>>
                \o ParamDelete(SubSeq(params, first + 1, Len(params)), key)
    ELSE Append(params, <<key, value>>)

\* data.forEach((value, key) => params.set(key, value))
RECURSIVE MergeParams(_, _)
MergeParams(params, entries) ==
    IF entries = << >> THEN params
    ELSE MergeParams(ParamSet(params, Head(entries)[1], Head(entries)[2].v),
                     Tail(entries))

\* DomUtils.mergeURLSearchParams(base, data): null and undefined values are
\* left out, the others set as value.toString()
RECURSIVE MergeURLSearchParams(_, _)
MergeURLSearchParams(base, fields) ==
    IF fields = << >> THEN base
    ELSE MergeURLSearchParams(
            IF Head(fields)[2].t \in {"null", "undefined"} THEN base
            ELSE ParamSet(base, Head(fields)[1], Head(fields)[2].v),
            Tail(fields))

\* URLSearchParams.toString
ParamsToString(params) ==
    Join([i \in DOMAIN params |-> params[i][1] \o "=" \o params[i][2]], "&")

\* variant: the query parameters are never looked at
HasParamsNever(params) == FALSE

\* Array.from(params.keys()).length > 0
HasParams(params) == params # << >>

\* what formatData returns and leaves in the containers it is given
Formatted(body, error, h, params) ==
    [body |-> body, error |-> error, headers |-> h, params |-> params]

\* formatData of a body-bearing verb: contentType || getContentType(headers)
LocalContentType(typeOverride, h) ==
    IF typeOverride # "" THEN typeOverride
    ELSE IF GetContentType(h) = "null" THEN "" ELSE GetContentType(h)

\* formatData(method, headers, params, data, contentType) of a client with
\* charset cs; typeOverride is contentType, "" for none
FormatDataOf(method, h, params, data, typeOverride, cs) ==
    LET type == LocalContentType(typeOverride, h)
        guessed == IF type # "" THEN type
                   ELSE IF /\ StartsWith(data.text, "{")
                           /\ EndsWith(data.text, "}")
                        THEN "application/json"
                   ELSE IF /\ StartsWith(data.text, "<")
                           /\ EndsWith(data.text, ">")
                        THEN "application/xml"
                   ELSE type
        json == IF type # "" THEN type ELSE "application/json"
    IN  IF data = NoData THEN Formatted(NoBody, "none", h, params)
        ELSE IF method \in BodyMethods THEN
            IF data.kind = "String"
            THEN Formatted(Body("data", ""), "none",
                           SetContentTypeOf(guessed, cs, h), params)
            ELSE IF data.kind = "FormData"
            THEN Formatted(Body("data", ""), "none", h, params)
            ELSE IF data.kind = "Object" \/ IsJSONContentType(type)
            THEN IF StringifyThrows(data)
                 THEN Formatted(NoBody, "exception",
                                SetContentTypeOf(json, cs, h), params)
                 ELSE Formatted(Body("string", JSONStringify(data)), "none",
                                SetContentTypeOf(json, cs, h), params)
            ELSE LET h2 == IF type = "" THEN SetContentTypeOf("", cs, h) ELSE h
                 IN  CASE data.kind = "FileList" ->
                            Formatted(Body("FormData", ""), "none", h2, params)
                       [] data.kind = "ArrayBufferView" ->
                            Formatted(Body("buffer", ""), "none", h2, params)
                       [] OTHER ->
                            Formatted(Body("data", ""), "none", h2, params)
        ELSE IF HasParams(params)
        THEN Formatted(NoBody, "params", h, params)
        ELSE IF data.kind = "URLSearchParams"
        THEN Formatted(NoBody, "none", h, MergeParams(params, data.fields))
        ELSE IF IsSimpleObject(data)
        THEN Formatted(NoBody, "none", h,
                       MergeURLSearchParams(params, data.fields))
        ELSE Formatted(NoBody, "type", h, params)

\* url.addUrlParams(parameters): the parameters follow a '?', or a '&' when
\* the url has a '?' already
AddUrlParams(url, parameters) ==
    IF Includes(url, "?") THEN url \o "&" \o parameters
    ELSE url \o "?" \o parameters

\* request: the url of the Call Record
LocalUrl(url, params) ==
    IF ParamsToString(params) # ""
    THEN AddUrlParams(url, ParamsToString(params))
    ELSE url

\* variant: the url of every call is built on the base url
ApiUrlAlwaysBuilt(isLocal, base, localUrl) == BuildUrl(base, localUrl)

\* request: const api = local ? localUrl : this.buildUrl(localUrl), the url
\* createResponse is called with
ApiUrl(isLocal, base, localUrl) ==
    IF isLocal THEN localUrl ELSE BuildUrl(base, localUrl)

\* no formatData yet
NoFormatted ==
    [done |-> FALSE, method |-> "", data |-> NoData, type |-> "", url |-> "",
     local |-> "", paramsBefore |-> << >>, body |-> NoBody, error |-> "none",
     localUrl |-> "", sent |-> FALSE, depth |-> -1, isLocal |-> FALSE,
     api |-> ""]

(* ---------------------------------------------------------------------- *)
(* mergeConfig                                                             *)
(* ---------------------------------------------------------------------- *)

\* IApiConfig: its keys; headers holds a headers container, the others
\* anything
ConfigKeys == {"headers", "credentials", "timeout"}

\* the value of a key of a configuration: no such key ("absent"), null or
\* undefined ("null"), a scalar with its text, or an object: a headers
\* container h, and own, the configuration the object was made for
\* ("default", "override") or "new" for one made by the merge or the call
ConfigValue(t, v, h, own) == [t |-> t, v |-> v, h |-> h, own |-> own]
Absent == ConfigValue("absent", "", NoHeaders, "")
NullValue == ConfigValue("null", "", NoHeaders, "")
Scalar(v) == ConfigValue("scalar", v, NoHeaders, "")
Object(h, own) == ConfigValue("object", "", h, own)

\* the scalars that are falsy: '', 0 and false
Falsy == {"", "0", "false"}

\* client.config is undefined
NoConfig == [k \in ConfigKeys |-> Absent]

\* the text of the index of the i-th item of an array
IndexKey(i) == CASE i = 1 -> "0" [] i = 2 -> "1" [] i = 3 -> "2" [] OTHER -> "3"
IndexKeys == {"0", "1", "2", "3"}

\* {...value}: the enumerable properties of its own, in order.  A plain
\* object gives its entries, an array its items by index (a pair, written as
\* its text), a Headers object nothing, a value that is no object nothing
Spread(value) ==
    IF value.t # "object" THEN << >>
    ELSE CASE value.h.rep = "object" -> value.h.entries
           [] value.h.rep = "array" ->
                [i \in DOMAIN value.h.entries |->
                    <<IndexKey(i),
                      value.h.entries[i][1] \o "," \o value.h.entries[i][2]>>]
           [] OTHER -> << >>

\* a property is defined: a key an object holds keeps its place, an index
\* goes before the names, a name goes last
RECURSIVE Define(_, _, _)
Define(entries, key, value) ==
    IF entries = << >> THEN <<<<key, value>>>>
    ELSE IF \E i \in DOMAIN entries : entries[i][1] = key
    THEN [i \in DOMAIN entries |->
            IF entries[i][1] = key THEN <<key, value>> ELSE entries[i]]
    ELSE IF key \in IndexKeys /\ Head(entries)[1] \notin IndexKeys
    THEN <<<<key, value>>>> \o entries
    ELSE <<Head(entries)>> \o Define(Tail(entries), key, value)

\* {...base, ...over}
RECURSIVE Overlay(_, _)
Overlay(base, over) ==
    IF over = << >> THEN base
    ELSE Overlay(Define(base, Head(over)[1], Head(over)[2]), Tail(over))

\* variant: the merge of the earlier ApiBase: a default takes the place of
\* any override that is falsy, and an object of the default configuration is
\* put into the override as it is when the override has none
MergeConfigEarlier(default, override) ==
    [k \in ConfigKeys |->
        IF default[k].t \in {"absent", "null"} THEN override[k]
        ELSE IF override[k].t = "object"
        THEN Object(HeadersOf("object",
                              Overlay(Spread(default[k]), Spread(override[k]))),
                    "new")
        ELSE IF override[k].t = "scalar" /\ override[k].v \notin Falsy
        THEN override[k]
        ELSE default[k]]

\* mergeConfig(apiConfig) of a client with configuration default: apiConfig
\* afterwards
MergeConfig(default, override) ==
    [k \in ConfigKeys |->
        IF default[k].t \in {"absent", "null"} THEN override[k]
        ELSE IF default[k].t = "object"
        THEN Object(HeadersOf("object",
                              Overlay(Spread(default[k]), Spread(override[k]))),
                    "new")
        ELSE IF override[k].t # "absent" THEN override[k]
        ELSE default[k]]

\* request: const { headers = {}, ...rest } = config
HeadersOfConfig(effective) ==
    IF effective["headers"].t = "object" THEN effective["headers"]
    ELSE Object(HeadersOf("object", << >>), "new")

\* no call yet
NoMerged ==
    [done |-> FALSE, override |-> NoConfig, method |-> "", data |-> NoData,
     effective |-> NoConfig, headers |-> NoHeaders, before |-> NoConfig]

\* the headers a configuration can hold under its key headers, made for the
\* configuration own with the value value
ConfigHeaders(own, value) ==
    {Absent} \cup
    {Object(h, own) :
        h \in {c \in [rep : Representations,
                      entries : EntriesWith(1, {value})] : WellFormed(c)}}

\* the default configurations of a client and the configurations of a call
DefaultConfigs ==
    {[k \in ConfigKeys |->
        CASE k = "headers" -> h [] k = "credentials" -> c [] OTHER -> Absent] :
        h \in ConfigHeaders("default", "v1"),
        c \in {Absent, NullValue, Scalar("include")}}

OverrideConfigs ==
    {[k \in ConfigKeys |->
        CASE k = "headers" -> h [] k = "credentials" -> c [] OTHER -> t] :
        h \in ConfigHeaders("override", "v2"),
        c \in {Absent, Scalar(""), Scalar("omit")},
        t \in {Absent, Scalar("0")}}

(* ---------------------------------------------------------------------- *)
(* authorize                                                               *)
(* ---------------------------------------------------------------------- *)

\* the scheme argument: a member of the enum ApiAuthorizationScheme, which
\* is a number, or a string
Schemes == {[t |-> "number", v |-> "1"], [t |-> "string", v |-> "Token"]}

\* typeof scheme === "number" ? ApiAuthorizationScheme[scheme] : scheme
SchemeName(scheme) ==
    IF scheme.t = "number"
    THEN CASE scheme.v = "0" -> "Basic"
           [] scheme.v = "1" -> "Bearer"
           [] scheme.v = "2" -> "OAuth"
           [] OTHER -> "undefined"
    ELSE scheme.v

\* token ? `${schemeName} ${token}` : token, "" for an empty or undefined
\* token
AuthorizationValue(scheme, token) ==
    IF token # "" THEN SchemeName(scheme) \o " " \o token ELSE token

\* getHeaders(): the configuration of the client afterwards; its headers
\* are the ones it had, or a new plain object
GetHeaders(default) ==
    IF default["headers"].t = "object" THEN default
    ELSE [default EXCEPT
            !["headers"] = Object(HeadersOf("object", << >>), "default")]

\* no authorize yet
NoAuthorized ==
    [done |-> FALSE, scheme |-> [t |-> "", v |-> ""], token |-> "",
     supplied |-> FALSE, before |-> NoConfig]

\* the containers authorize is applied to
AuthorizedHeaders ==
    {h \in [rep : Representations,
            entries : {<< >>, <<<<"x", "v1">>>>,
                       <<<<"Authorization", "Basic old">>>>,
                       <<<<"x", "v1">>, <<"authorization", "Basic old">>>>}] :
        WellFormed(h)}

(* ---------------------------------------------------------------------- *)
(* transports: transformResponse and responseData                          *)
(* ---------------------------------------------------------------------- *)

\* the two adapters: FetchLikeApi and AxiosApi
Transports == {"fetch", "axios"}

\* HTTP status codes a server may answer with
Statuses == {199, 200, 204, 299, 300, 404}

\* the status codes of the server the interleavings of calls are explored
\* with
CommonStatuses == {200, 404}

\* Response.ok of the Fetch standard: the status is an ok status
ResponseOk(status) == status \in 200..299

\* variant: the upper bound is exclusive
AxiosOkExclusive(status) == status >= 200 /\ status < 299

\* AxiosApi.transformResponse: const ok = status >= 200 && status <= 299
AxiosOk(status) == status >= 200 /\ status <= 299

\* transformResponse of the adapter: the unified ok and status
TransformResponse(transport, status) ==
    [ok |-> IF transport = "axios" THEN AxiosOk(status) ELSE ResponseOk(status),
     status |-> status]

\* ApiResponseType, "none" when the call requests no response type
ResponseTypes == {"none", "ArrayBuffer", "Blob", "Document", "Json", "Stream",
                  "Text"}

\* a field of a JSON object: not a key of it, an empty string, a text
FieldValues == {"absent", "empty", "text"}

\* what a value is as far as the pipeline branches on it.  kind: "empty" the
\* empty string, "text" a text that is no JSON, "jsonText" the text of a JSON
\* object, "json" an object, with or without the keys title and message,
\* "object" a Blob, an ArrayBuffer, a Document or a stream, "throws" no
\* value but an exception, "pending" a promise that never settles
Value(kind, title, message) ==
    [kind |-> kind, title |-> title, message |-> message]

EmptyBody == Value("empty", "absent", "absent")

\* the bodies a response may carry: nothing (content-length 0), a text that
\* is no JSON, a JSON object
Bodies ==
    {EmptyBody, Value("text", "absent", "absent")}
        \cup {Value("json", t, m) : t \in FieldValues, m \in FieldValues}

\* JSON.parse of a text
JsonParse(text) ==
    IF text.kind = "jsonText" THEN Value("json", text.title, text.message)
    ELSE Value("throws", "absent", "absent")

\* response.text() of the Fetch standard
ResponseText(body) ==
    IF body.kind = "json" THEN Value("jsonText", body.title, body.message)
    ELSE body

\* new DOMParser().parseFromString(value, type) with the content type of
\* the response as type, application/xml when it has none: a Document, or a
\* TypeError when the type is none of the supported ones, as a JSON type
ParseFromString(jsonContentType) ==
    IF jsonContentType THEN Value("throws", "absent", "absent")
    ELSE Value("object", "absent", "absent")

\* FetchLikeApi.responseData, Document: new Promise((resolve) => {
\* response.text().then((value) => { resolve(parseFromString(value, type)) })
\* }), a promise that is resolved by the callback and rejected by nothing
FetchDocument(jsonContentType) ==
    IF ParseFromString(jsonContentType).kind = "throws"
    THEN Value("pending", "absent", "absent")
    ELSE ParseFromString(jsonContentType)

\* FetchLikeApi.responseData: '' for status 204; the Blob, ArrayBuffer,
\* Document or stream of the body whatever its length; else the text of the
\* body, parsed when JSON is requested or announced and the text is not ''
FetchResponseData(status, body, responseType, jsonContentType) ==
    LET text == ResponseText(body)
    IN  IF status = 204 THEN EmptyBody
        ELSE IF responseType = "Document"
        THEN FetchDocument(jsonContentType)
        ELSE IF responseType \in {"Blob", "ArrayBuffer", "Stream"}
        THEN Value("object", "absent", "absent")
        ELSE IF responseType = "Json" \/ jsonContentType
        THEN IF text.kind = "empty" THEN EmptyBody ELSE JsonParse(text)
        ELSE text

\* response.data as axios hands it over: a Blob, an ArrayBuffer, a Document
\* or a stream when one is requested, the text of the body when text is
\* requested; else the object of a JSON body, and the text of any other
AxiosData(body, responseType) ==
    IF responseType \in {"Blob", "ArrayBuffer", "Document", "Stream"}
    THEN Value("object", "absent", "absent")
    ELSE IF responseType = "Text" THEN ResponseText(body)
    ELSE body

\* AxiosApi.responseData: data when it is falsy ('') or no string; a string
\* is parsed when JSON is requested or announced
AxiosResponseData(status, body, responseType, jsonContentType) ==
    LET data == AxiosData(body, responseType)
    IN  IF data.kind # "empty"
           /\ (responseType = "Json" \/ jsonContentType)
           /\ data.kind \in {"text", "jsonText"}
        THEN IF status = 204 THEN EmptyBody ELSE JsonParse(data)
        ELSE data

\* responseData of the adapter
ResponseData(transport, status, body, responseType, jsonContentType) ==
    IF transport = "axios"
    THEN AxiosResponseData(status, body, responseType, jsonContentType)
    ELSE FetchResponseData(status, body, responseType, jsonContentType)

(* ---------------------------------------------------------------------- *)
(* responsePromiseHandler                                                  *)
(* ---------------------------------------------------------------------- *)

\* what the promise of createResponse may reject with: an Error with a
\* message, a value without a message (a string, {} or new Error()), null
\* or undefined
Reasons == {"error", "noMessage", "nullish"}

\* how the promise of createResponse may settle.  kind: "reject" with a
\* reason, "resolve" with a response, "invalid" resolved with something
\* transformResponse throws on.  A response with status 204 has no body.
TransportOutcome(kind, reason, status, statusText, body) ==
    [kind |-> kind, reason |-> reason, status |-> status,
     statusText |-> statusText, body |-> body]

NoOutcome == TransportOutcome("none", "none", 0, "", EmptyBody)

TransportOutcomes ==
    {TransportOutcome("reject", r, 0, "", EmptyBody) : r \in Reasons}
        \cup {TransportOutcome("invalid", "none", 0, "", EmptyBody)}
        \cup {TransportOutcome("resolve", "none", st, t, b) :
                st \in Statuses \ {204}, t \in {"", "statusText"}, b \in Bodies}
        \cup {TransportOutcome("resolve", "none", 204, t, EmptyBody) :
                t \in {"", "statusText"}}

\* isResponseErrorData: an object with the keys title and message
IsResponseErrorData(data) ==
    data.kind = "json" /\ data.title # "absent" /\ data.message # "absent"

\* responseErrorMessage: data.message || data.title of an error body, ""
\* stands for undefined and the empty string
ResponseErrorMessage(data) ==
    IF IsResponseErrorData(data)
    THEN IF data.message = "text" THEN "data.message"
         ELSE IF data.title = "text" THEN "data.title"
         ELSE ""
    ELSE ""

\* what responsePromiseHandler settles with.  kind: "response" {response},
\* "errorResponse" {error, response}, "error" {error}, "rejects" the promise
\* rejects; status and message are those of the ApiError
Classified(kind, status, message) ==
    [kind |-> kind, status |-> status, message |-> message]

NoClassified == Classified("none", 0, "")

\* the catch callback: new ApiError(exception.message || "Network Error",
\* -1); reading the message of null or undefined throws a TypeError
CatchReason(reason) ==
    IF reason = "nullish" THEN Classified("rejects", 0, "TypeError")
    ELSE Classified("error", -1,
                    IF reason = "error" THEN "reason.message"
                    ELSE "Network Error")

\* the then callback, response not ok: errorMessage || statusText || "Unkown"
ErrorMessage(transport, o) ==
    LET data == ResponseData(transport, o.status, o.body, "Json", FALSE)
        errorMessage == IF data.kind = "throws" THEN ""
                        ELSE ResponseErrorMessage(data)
    IN  IF errorMessage # "" THEN errorMessage
        ELSE IF o.statusText # "" THEN o.statusText
        ELSE "Unkown"

\* responsePromiseHandler applied to the promise of createResponse
ResponsePromiseHandler(transport, o) ==
    IF o.kind = "reject" THEN CatchReason(o.reason)
    \* what transformResponse throws is an Error with a message
    ELSE IF o.kind = "invalid" THEN CatchReason("error")
    ELSE LET r == TransformResponse(transport, o.status)
         IN  IF r.ok THEN Classified("response", r.status, "")
             ELSE Classified("errorResponse", r.status,
                             ErrorMessage(transport, o))

(* ---------------------------------------------------------------------- *)
(* request                                                                 *)
(* ---------------------------------------------------------------------- *)

\* what responsePromiseHandler may settle with, as far as request() reads
\* it: the kind and the status
Classifications ==
    {[kind |-> r.kind, status |-> r.status] :
        r \in {ResponsePromiseHandler(t, o) :
                  t \in Transports, o \in TransportOutcomes}}

\* rawResult == null || rawResult === "", else a value
RawResult(data) ==
    IF data.kind \in {"throws", "pending"} THEN data.kind
    ELSE IF data.kind = "empty" THEN "empty"
    ELSE "value"

\* the bodies a response with this status may carry
BodiesOf(status) == IF status = 204 THEN {EmptyBody} ELSE Bodies

\* what awaiting responseData(response, responseType) may give for a
\* response with this status: is the body empty, and the raw result
Decodings ==
    [status \in Statuses |->
        {[noContent |-> b.kind = "empty",
          raw |-> RawResult(ResponseData(t, status, b, rt, j))] :
            t \in Transports, b \in BodiesOf(status), rt \in ResponseTypes,
            j \in BOOLEAN}]

\* what awaiting responseData(response, ApiResponseType.Json) may give in
\* responsePromiseHandler for a response with this status
ErrorDecodings ==
    [status \in Statuses |->
        {RawResult(ResponseData(t, status, b, "Json", FALSE)) :
            t \in Transports, b \in BodiesOf(status)}]

InFlight(s) == calls[s].pc \notin {"idle", "done"}

\* the calls after the call in slot s ended as c: c is the call that
\* completed last, the record of the one that completed before is dropped
Completed(s, c) ==
    [t \in Slots |-> IF t = s THEN c
                     ELSE IF calls[t].pc = "done" THEN IdleCall
                     ELSE calls[t]]

\* the calls after a call was made in slot s and awaits its transport as c:
\* the record of the call that completed before is dropped
Started(s, c) ==
    [t \in Slots |-> IF t = s THEN c
                     ELSE IF calls[t].pc = "done" THEN IdleCall
                     ELSE calls[t]]

\* the call ends after handleError h: the promise of request() rejects with
\* the ApiDataError when h throws and resolves to undefined otherwise
EndWithError(c, depth, failure, local, events, h) ==
    [c EXCEPT !.pc = "done", !.depth = depth, !.log = c.log \o events,
              !.failure = failure,
              !.payload.onError = local,
              !.result = IF h.thrown THEN "throw" ELSE "undefined",
              !.thrown = IF h.thrown THEN h.error ELSE NoError]

\* the call ends with a value: the promise of request() resolves
EndWithResult(c, events, result) ==
    [c EXCEPT !.pc = "done", !.log = c.log \o events, !.result = result]

\* request(), from its invocation to the await of the transport
Call(s) ==
    /\ ~InFlight(s)
    /\ started < MaxCalls
    /\ \E formattedError \in FormatErrors, present \in BOOLEAN :
        LET id == started + 1
            c0 == [IdleCall EXCEPT !.id = id, !.payload.present = present,
                                   !.failure = IF formattedError # "none"
                                               THEN "format" ELSE "none"]
        IN  /\ started' = id
            /\ lastWriter' = id
            /\ IF FormatFailed(formattedError)
               THEN \E local \in LocalHandlersOf(c0.payload) :
                    LET h == HandleError(ResetLastError(lastError), id, 1, 0, FALSE,
                                          local, onError)
                    IN  /\ calls' = Completed(s,
                                EndWithError(c0, 0, "format", local, h.events, h))
                        /\ lastError' = h.lastError
                        /\ completed' = Append(completed, [id |-> id, failed |-> TRUE, stored |-> TRUE])
               ELSE /\ calls' = Started(s,
                          [c0 EXCEPT !.pc = "transport",
                                     !.log = DispatchRequestCallback(onRequest)
                                             \o <<Ev("createResponse", -1, FALSE, 0)>>])
                    /\ lastError' = ResetLastError(lastError)
                    /\ UNCHANGED completed
    /\ UNCHANGED <<onError, onRequest, onComplete, onResponse>>
    /\ UNCHANGED otherVars

\* the promise of createResponse settles and the then/catch callbacks of
\* responsePromiseHandler run: a rejection (or transformResponse throwing)
\* gives {error}, unless the catch callback throws and the promise of
\* responsePromiseHandler rejects; an ok response gives {response}, any
\* other response starts reading the body for the error message
TransportSettles(s) ==
    /\ calls[s].pc = "transport"
    /\ \E r \in Classifications :
        /\ r.kind \in {"response", "errorResponse"} => r.status \in statuses
        /\ calls' = [calls EXCEPT ![s] =
            IF r.kind = "rejects"
            THEN [@ EXCEPT !.pc = "rejected"]
            ELSE IF r.kind = "error"
            THEN [@ EXCEPT !.pc = "settled", !.error = TRUE,
                           !.status = r.status]
            ELSE IF r.kind = "response"
            THEN [@ EXCEPT !.pc = "settled", !.response = TRUE, !.ok = TRUE,
                           !.status = r.status]
            ELSE [@ EXCEPT !.pc = "errorBody", !.response = TRUE,
                           !.status = r.status,
                           !.log = @ \o <<Ev("responseData", -1, TRUE, 0)>>]]
    /\ UNCHANGED <<onError, onRequest, onComplete, onResponse, lastError,
                   started, lastWriter, completed>>
    /\ UNCHANGED otherVars

\* request(): the await of responsePromiseHandler throws what its promise
\* rejected with, and the promise of request() rejects with it
Rejected(s) ==
    /\ calls[s].pc = "rejected"
    /\ calls' = Completed(s,
            [calls[s] EXCEPT !.pc = "done", !.failure = "network",
                             !.result = "throw", !.thrown = TypeError])
    /\ completed' = Append(completed,
            [id |-> calls[s].id, failed |-> TRUE, stored |-> FALSE])
    /\ UNCHANGED <<onError, onRequest, onComplete, onResponse, lastError,
                   started, lastWriter>>
    /\ UNCHANGED otherVars

\* variant: an exception of the decoding of the error body is let through
ErrorBodyUncaught(c, raw) ==
    IF raw = "throws"
    THEN [c EXCEPT !.pc = "rejected", !.errorBody = raw]
    ELSE [c EXCEPT !.pc = "settled", !.error = TRUE, !.errorBody = raw]

\* the then callback, response not ok: try { await responseData(response,
\* Json) } catch { errorMessage = undefined }, return {error, response}
ErrorBody(c, raw) ==
    [c EXCEPT !.pc = "settled", !.error = TRUE, !.errorBody = raw]

\* responsePromiseHandler, response not ok: responseData(response, Json)
\* settles, a rejection is swallowed, and {error, response} is returned
ErrorBodySettles(s) ==
    /\ calls[s].pc = "errorBody"
    /\ \E raw \in ErrorDecodings[calls[s].status] :
        calls' = [calls EXCEPT ![s] = ErrorBody(@, raw)]
    /\ UNCHANGED <<onError, onRequest, onComplete, onResponse, lastError,
                   started, lastWriter, completed>>
    /\ UNCHANGED otherVars

\* request(), from the await of responsePromiseHandler to the await of
\* responseData (or to its end on a network or HTTP error)
Complete(s) ==
    /\ calls[s].pc = "settled"
    /\ LET  c == calls[s]
            complete == DispatchCompleteCallback(onComplete, c.response)
       IN   IF c.error \/ ~c.response
            THEN \E local \in LocalHandlersOf(c.payload) :
                 LET h == HandleError(lastError, c.id, 1, 1, c.response, local, onError)
                 IN  /\ calls' = Completed(s,
                            EndWithError(c, 1,
                                IF c.response THEN "http" ELSE "network",
                                local, complete \o h.events, h))
                     /\ lastError' = h.lastError
                     /\ lastWriter' = c.id
                     /\ completed' = Append(completed, [id |-> c.id, failed |-> TRUE, stored |-> TRUE])
            ELSE /\ calls' = [calls EXCEPT ![s] =
                        [c EXCEPT !.pc = "decoding",
                                  !.log = c.log \o complete
                                          \o StoreResponse(c.payload)
                                          \o DispatchResponseCallback(onResponse, c.response)
                                          \o <<Ev("responseData", -1, TRUE, 0)>>]]
                 /\ UNCHANGED <<lastError, lastWriter, completed>>
    /\ UNCHANGED <<onError, onRequest, onComplete, onResponse, started>>
    /\ UNCHANGED otherVars

\* request(), from the await of responseData to its end, or to no end when
\* the promise of responseData stays pending.  d: what
\* responseData gave for the response; parsed: what the parser returns
\* ([error], [undefined, value], [undefined, undefined]) or that it throws
Decoded(s) ==
    /\ calls[s].pc = "decoding"
    /\ LET c == calls[s]
           parserEv == <<Ev("parser", -1, TRUE, 0)>>
           \* catch (ex): depth 3, after n - 1 earlier errors of this call
           Catch(le, cc, failure, local, events, n) ==
               LET h == HandleError(le, c.id, n, 3, TRUE, local, onError)
               IN  /\ calls' = Completed(s,
                          EndWithError(cc, 3, failure, local, events \o h.events, h))
                   /\ lastError' = h.lastError
                   /\ lastWriter' = c.id
                   /\ completed' = Append(completed, [id |-> c.id, failed |-> TRUE, stored |-> TRUE])
           \* return a value
           Return(cc, events, result) ==
               /\ calls' = Completed(s, EndWithResult(cc, events, result))
               /\ completed' = Append(completed, [id |-> c.id, failed |-> FALSE, stored |-> FALSE])
               /\ UNCHANGED <<lastError, lastWriter>>
           \* return defaultValue
           Default(cc, events) ==
               \E defaultValue \in OptionsOf(c.payload) :
                   Return([cc EXCEPT !.payload.defaultValue = defaultValue],
                          events, "default")
       IN  \E d \in Decodings[c.status] :
           LET cd == [c EXCEPT !.noContent = d.noContent, !.raw = d.raw]
           IN
           IF d.raw = "pending"
           \* the promise awaited never settles
           THEN /\ calls' = [calls EXCEPT ![s] = [cd EXCEPT !.pc = "pending"]]
                /\ UNCHANGED <<lastError, lastWriter, completed>>
           ELSE IF d.raw = "throws"
           THEN \E local \in LocalHandlersOf(c.payload) :
                    Catch(lastError, cd, "decode", local, << >>, 1)
           ELSE IF d.raw = "empty"
           THEN Default(cd, << >>)
           ELSE \E parser \in OptionsOf(c.payload) :
               IF parser
               THEN \E parsed \in {"error", "value", "falsy", "noValue", "throws"} :
                    LET cp == [cd EXCEPT !.payload.parser = TRUE,
                                         !.parsed = parsed]
                    IN  IF parsed = "throws"
                        THEN \E local \in LocalHandlersOf(c.payload) :
                                Catch(lastError, cp, "decode", local, parserEv, 1)
                        ELSE IF parsed = "error"
                        THEN \E local \in LocalHandlersOf(c.payload) :
                             LET h == HandleError(lastError, c.id, 1, 2, TRUE, local, onError)
                             IN  IF h.thrown
                                 \* handleError is called inside the try block
                                 THEN Catch(h.lastError, cp, "parser", local,
                                            parserEv \o h.events, 2)
                                 ELSE /\ calls' = Completed(s,
                                          EndWithError(cp, 2, "parser", local,
                                                       parserEv \o h.events, h))
                                      /\ lastError' = h.lastError
                                      /\ lastWriter' = c.id
                                      /\ completed' = Append(completed,
                                            [id |-> c.id, failed |-> TRUE, stored |-> TRUE])
                        \* if (parseResult) return parseResult
                        ELSE IF parsed = "value"
                        THEN Return(cp, parserEv, "parsed")
                        ELSE Default(cp, parserEv)
               ELSE Return(cd, << >>, "value")
    /\ UNCHANGED <<onError, onRequest, onComplete, onResponse, started>>
    /\ UNCHANGED otherVars

\* no responsePromiseHandler applied, no header function applied
IdleClassify ==
    /\ outcome = [transport |-> "none", promise |-> NoOutcome]
    /\ classified = NoClassified

IdleHeaders ==
    /\ headers = NoHeaders
    /\ written = NoWrite
    /\ charset = DefaultCharset
    /\ contentType = NoContentType

IdleUrl ==
    /\ baseUrl = NoBaseUrl
    /\ built = NoBuilt

IdleFormat ==
    /\ localParams = << >>
    /\ formatted = NoFormatted

IdleConfig ==
    /\ config = NoConfig
    /\ merged = NoMerged

IdleAuthorize == authorized = NoAuthorized

IdleLength == contentLength = NoContentLength

\* a client after construction, with any observers registered
InitClient ==
    /\ onError \in BOOLEAN
    /\ onRequest \in BOOLEAN
    /\ onComplete \in BOOLEAN
    /\ onResponse \in BOOLEAN
    /\ lastError = NoError
    /\ calls = [s \in Slots |-> IdleCall]
    /\ started = 0
    /\ lastWriter = 0
    /\ completed = << >>
    /\ IdleClassify
    /\ IdleHeaders
    /\ IdleUrl
    /\ IdleFormat
    /\ IdleConfig
    /\ IdleAuthorize
    /\ IdleLength

Init ==
    /\ InitClient
    /\ statuses = CommonStatuses

Next ==
    \E s \in Slots :
        \/ Call(s)
        \/ TransportSettles(s)
        \/ Rejected(s)
        \/ ErrorBodySettles(s)
        \/ Complete(s)
        \/ Decoded(s)

Spec == Init /\ [][Next]_vars

\* calls run one after another: a call is made only when none is in flight
NextSeq ==
    \E s \in Slots :
        \/ (\A t \in Slots : ~InFlight(t)) /\ Call(s)
        \/ TransportSettles(s)
        \/ Rejected(s)
        \/ ErrorBodySettles(s)
        \/ Complete(s)
        \/ Decoded(s)

SpecSeq == Init /\ [][NextSeq]_vars

\* calls run one after another against a server that answers with any
\* status
InitDetail ==
    /\ InitClient
    /\ statuses = Statuses

SpecDetail == InitDetail /\ [][NextSeq]_vars

\* every promise a call awaits settles and the continuation of the call
\* then runs: the transport promise, the read of the error body and the read
\* of the body
Settling ==
    \A s \in Slots :
        /\ WF_vars(TransportSettles(s))
        /\ WF_vars(Rejected(s))
        /\ WF_vars(ErrorBodySettles(s))
        /\ WF_vars(Complete(s))
        /\ WF_vars(Decoded(s))

SpecSettling == InitDetail /\ [][NextSeq]_vars /\ Settling

(* ---------------------------------------------------------------------- *)
(* responsePromiseHandler alone                                            *)
(* ---------------------------------------------------------------------- *)

\* a client that makes no call
NoCalls ==
    /\ onError = FALSE
    /\ onRequest = FALSE
    /\ onComplete = FALSE
    /\ onResponse = FALSE
    /\ lastError = NoError
    /\ calls = [s \in Slots |-> IdleCall]
    /\ started = 0
    /\ lastWriter = 0
    /\ completed = << >>
    /\ statuses = Statuses

requestVars == <<onError, onRequest, onComplete, onResponse, lastError, calls,
                 started, lastWriter, completed, statuses>>

\* an adapter and a promise of createResponse that settles in some way
InitClassify ==
    /\ NoCalls
    /\ IdleAuthorize
    /\ IdleLength
    /\ IdleConfig
    /\ IdleFormat
    /\ IdleUrl
    /\ outcome \in [transport : Transports, promise : TransportOutcomes]
    /\ classified = NoClassified
    /\ IdleHeaders

\* responsePromiseHandler(promise) settles
Classify ==
    /\ classified = NoClassified
    /\ classified' = ResponsePromiseHandler(outcome.transport, outcome.promise)
    /\ UNCHANGED <<requestVars, authVars, lengthVars,
                   configVars, formatVars, urlVars, outcome,
                   headerVars>>

SpecClassify == InitClassify /\ [][Classify]_vars

(* ---------------------------------------------------------------------- *)
(* header functions alone                                                  *)
(* ---------------------------------------------------------------------- *)

\* some headers container
InitHeaders ==
    /\ NoCalls
    /\ IdleAuthorize
    /\ IdleLength
    /\ IdleConfig
    /\ IdleFormat
    /\ IdleUrl
    /\ IdleClassify
    /\ charset = DefaultCharset
    /\ contentType = NoContentType
    /\ headers \in {h \in [rep : Representations,
                             entries : EntriesWith(MaxHeaders,
                                                   HeaderValues)] : WellFormed(h)}
    /\ written = NoWrite

\* setHeaderValue(key, value, headers); written records the call, whether
\* the container held the key in some case, and how many entries it had
SetHeader ==
    \E key \in HeaderNames, value \in HeaderValues \cup {""} :
        /\ headers' = SetHeaderValue(key, value, headers)
        /\ written' = [key |-> key, value |-> value,
                       had |-> FindIndex(headers.entries, ToLowerCase(key)) # 0,
                       count |-> Len(headers.entries)]
        /\ UNCHANGED <<requestVars, authVars, lengthVars,
                       configVars, formatVars, urlVars,
                       classifyVars, charset, contentType>>

SpecHeaders == InitHeaders /\ [][SetHeader]_vars

(* ---------------------------------------------------------------------- *)
(* content type functions alone                                            *)
(* ---------------------------------------------------------------------- *)

\* a client with some charset and some headers container
InitContentType ==
    /\ NoCalls
    /\ IdleAuthorize
    /\ IdleLength
    /\ IdleConfig
    /\ IdleFormat
    /\ IdleUrl
    /\ IdleClassify
    /\ charset \in {DefaultCharset, "gbk"}
    /\ contentType = NoContentType
    /\ headers \in {h \in [rep : Representations,
                             entries : EntriesWith(MaxHeaders,
                                                   HeldContentTypes)] :
                        WellFormed(h)}
    /\ written = NoWrite

\* setContentType(type, headers); contentType records the call, written
\* the setHeaderValue it makes
SetContentType ==
    \E type \in ContentTypes :
        /\ headers' = SetContentTypeOf(type, charset, headers)
        /\ contentType' = [set |-> TRUE, type |-> type]
        /\ written' = [key |-> ContentTypeKey,
                       value |-> ContentTypeValue(type, charset),
                       had |-> FindIndex(headers.entries,
                                         ToLowerCase(ContentTypeKey)) # 0,
                       count |-> Len(headers.entries)]
        /\ UNCHANGED <<requestVars, authVars, lengthVars,
                       configVars, formatVars, urlVars,
                       classifyVars, charset>>

SpecContentType == InitContentType /\ [][SetContentType]_vars

(* ---------------------------------------------------------------------- *)
(* buildUrl alone                                                          *)
(* ---------------------------------------------------------------------- *)

\* a client with some base url, or none
InitUrl ==
    /\ NoCalls
    /\ IdleAuthorize
    /\ IdleLength
    /\ IdleConfig
    /\ IdleFormat
    /\ IdleClassify
    /\ IdleHeaders
    /\ baseUrl \in BaseUrls
    /\ built = NoBuilt

\* buildUrl(url)
BuildsUrl ==
    \E url \in Urls :
        /\ built' = [done |-> TRUE, url |-> url,
                     result |-> BuildUrl(baseUrl, url)]
        /\ UNCHANGED <<requestVars, authVars, lengthVars,
                       configVars, formatVars, classifyVars,
                       headerVars, baseUrl>>

SpecUrl == InitUrl /\ [][BuildsUrl]_vars

(* ---------------------------------------------------------------------- *)
(* formatData alone, and what request makes of its result                  *)
(* ---------------------------------------------------------------------- *)

\* some headers container and some query parameters
InitFormat ==
    /\ NoCalls
    /\ IdleAuthorize
    /\ IdleLength
    /\ IdleConfig
    /\ IdleClassify
    /\ baseUrl \in {NoBaseUrl, "http://localhost"}
    /\ built = NoBuilt
    /\ charset = DefaultCharset
    /\ contentType = NoContentType
    /\ written = NoWrite
    /\ headers \in {h \in [rep : Representations,
                             entries : EntriesWith(1, HeldContentTypes)] :
                        WellFormed(h)}
    /\ localParams \in {<< >>, <<<<"page", "1">>>>,
                         <<<<"id", "1">>, <<"page", "1">>>>}
    /\ formatted = NoFormatted

\* request from formatData to the call of the transport: formatData(method,
\* headers, params, data, contentType), the url with the parameters, on an
\* error depth 0 and a return before the transport is called, else the url
\* the transport is called with (api).  formatted records the call, the
\* content type it finds (local), the query parameters it starts with and
\* the local option of its payload (isLocal)
Format ==
    \E method \in Methods, data \in Datas,
       type \in {"", "application/json", "text/plain"},
       url \in {"/x", "/x?y=1", "http://h/x"}, isLocal \in BOOLEAN :
        LET f == FormatDataOf(method, headers, localParams, data, type,
                              charset)
        IN  /\ ~formatted.done
            /\ headers' = f.headers
            /\ localParams' = f.params
            /\ formatted' =
                    [done |-> TRUE, method |-> method, data |-> data,
                     type |-> type, url |-> url,
                     local |-> LocalContentType(type, headers),
                     paramsBefore |-> localParams,
                     body |-> f.body, error |-> f.error,
                     localUrl |-> LocalUrl(url, f.params),
                     sent |-> ~FormatFailed(f.error),
                     depth |-> IF FormatFailed(f.error) THEN 0 ELSE -1,
                     isLocal |-> isLocal,
                     api |-> IF FormatFailed(f.error) THEN ""
                             ELSE ApiUrl(isLocal, baseUrl,
                                         LocalUrl(url, f.params))]
            /\ UNCHANGED <<requestVars, authVars, lengthVars,
                           configVars, urlVars, classifyVars,
                           written, charset, contentType>>

SpecFormat == InitFormat /\ [][Format]_vars

(* ---------------------------------------------------------------------- *)
(* mergeConfig alone, and the headers request makes of its result          *)
(* ---------------------------------------------------------------------- *)

\* a client with some default configuration
InitConfig ==
    /\ NoCalls
    /\ IdleAuthorize
    /\ IdleLength
    /\ IdleClassify
    /\ IdleHeaders
    /\ IdleUrl
    /\ IdleFormat
    /\ config \in DefaultConfigs
    /\ merged = NoMerged

\* request from mergeConfig to formatData: mergeConfig(config) changes the
\* configuration of the call in place, formatData writes the content type
\* into its headers.  The object written is the one of the default
\* configuration when it was made for it.  merged records the call, its
\* configuration after mergeConfig (effective), the headers after
\* formatData and the default configuration before the call
MergeOf(override, method, data) ==
        LET effective == MergeConfig(config, override)
            object == HeadersOfConfig(effective)
            f == FormatDataOf(method, object.h, << >>, data, "", charset)
        IN  /\ ~merged.done
            /\ config' = IF object.own = "default"
                         THEN [config EXCEPT !["headers"].h = f.headers]
                         ELSE config
            /\ merged' = [done |-> TRUE, override |-> override,
                          method |-> method, data |-> data,
                          effective |-> effective, headers |-> f.headers,
                          before |-> config]

\* a call with some configuration, verb and payload
Merge ==
    \E override \in OverrideConfigs, method \in Methods,
       data \in {d \in Datas : d.kind \in {"none", "Object"}} :
            /\ MergeOf(override, method, data)
            /\ UNCHANGED <<requestVars, authVars, lengthVars,
                           formatVars, urlVars, classifyVars,
                           headerVars>>

SpecConfig == InitConfig /\ [][Merge]_vars

(* ---------------------------------------------------------------------- *)
(* getContentLength alone                                                  *)
(* ---------------------------------------------------------------------- *)

\* a headers container with a content-length header, or without one
InitLength ==
    /\ NoCalls
    /\ IdleAuthorize
    /\ IdleConfig
    /\ IdleClassify
    /\ IdleUrl
    /\ IdleFormat
    /\ charset = DefaultCharset
    /\ contentType = NoContentType
    /\ written = NoWrite
    /\ headers \in
        {h \in [rep : Representations,
                entries : {<< >>, <<<<"x", "v1">>>>}
                    \cup {e \o <<<<name, v>>>> :
                            e \in {<< >>, <<<<"x", "v1">>>>},
                            name \in {"content-length", "Content-Length"},
                            v \in ContentLengths}] : WellFormed(h)}
    /\ contentLength = NoContentLength

\* getContentLength(headers)
GetsContentLength ==
    /\ ~contentLength.done
    /\ contentLength' = [done |-> TRUE, result |-> GetContentLength(headers)]
    /\ UNCHANGED <<requestVars, authVars, configVars, formatVars, urlVars,
                   classifyVars, headerVars>>

SpecLength == InitLength /\ [][GetsContentLength]_vars

(* ---------------------------------------------------------------------- *)
(* authorize alone, and the calls made after it                            *)
(* ---------------------------------------------------------------------- *)

\* a client with no configuration, with a configuration without headers or
\* with headers, and a headers container for authorize, or none
InitAuthorize ==
    /\ NoCalls
    /\ IdleLength
    /\ IdleClassify
    /\ IdleUrl
    /\ IdleFormat
    /\ charset = DefaultCharset
    /\ contentType = NoContentType
    /\ written = NoWrite
    /\ headers \in {NoHeaders} \cup AuthorizedHeaders
    /\ config \in {NoConfig,
                   [NoConfig EXCEPT !["credentials"] = Scalar("include")]}
                  \cup {[NoConfig EXCEPT !["headers"] = Object(h, "default")] :
                            h \in AuthorizedHeaders}
    /\ merged = NoMerged
    /\ authorized = NoAuthorized

\* authorize(scheme, token, writeHeaders), writeHeaders being the container
\* headers when there is one; authorized records the call and the default
\* configuration before it
Authorize ==
    \E scheme \in Schemes, token \in {"", "abc"} :
        LET value == AuthorizationValue(scheme, token)
            supplied == headers # NoHeaders
        IN  /\ ~authorized.done
            /\ IF supplied
               THEN /\ headers' = SetHeaderValue("Authorization", value, headers)
                    /\ config' = config
               ELSE /\ headers' = headers
                    /\ config' = [GetHeaders(config) EXCEPT
                            !["headers"].h =
                                SetHeaderValue("Authorization", value, @)]
            /\ authorized' = [done |-> TRUE, scheme |-> scheme,
                              token |-> token, supplied |-> supplied,
                              before |-> config]
            /\ UNCHANGED <<requestVars, lengthVars, formatVars, urlVars,
                           classifyVars, written, charset, contentType,
                           merged>>

\* a GET made after authorize, with some headers of its own or none
CallAuthorized ==
    \E own \in {Absent} \cup
                {Object(HeadersOf(rep, entries), "override") :
                    rep \in Representations,
                    entries \in {<< >>, <<<<"x", "v2">>>>,
                                 <<<<"authorization", "Basic own">>>>}} :
        /\ authorized.done
        /\ MergeOf([NoConfig EXCEPT !["headers"] = own], "GET", NoData)
        /\ UNCHANGED <<requestVars, authVars, lengthVars, formatVars, urlVars,
                       classifyVars, headerVars>>

SpecAuthorize == InitAuthorize /\ [][Authorize \/ CallAuthorized]_vars

(* ---------------------------------------------------------------------- *)
(* Properties                                                              *)
(* ---------------------------------------------------------------------- *)

Count(log, e) == Cardinality({i \in DOMAIN log : log[i].e = e})
Has(log, e) == \E i \in DOMAIN log : log[i].e = e
\* index of the first event e of the log, 0 when there is none
Pos(log, e) ==
    IF Has(log, e)
    THEN CHOOSE i \in DOMAIN log :
            log[i].e = e /\ \A j \in 1..(i - 1) : log[j].e # e
    ELSE 0

AllCalls == {calls[s] : s \in Slots}
DoneCalls == {c \in AllCalls : c.pc = "done"}
NoneInFlight == \A s \in Slots : ~InFlight(s)

Typed(c) == c.result \in {"value", "parsed"}
Defaulted(c) == c.result = "default"
Dispatched(c) == Has(c.log, "localOnError") \/ Has(c.log, "globalOnError")
Errored(c) == c.result = "throw" \/ Dispatched(c)
Unhandled(c) == c.payload.onError = "none" /\ ~onError

\* C1: every completed call produced exactly one of: the typed result, the
\* default value, an error dispatched to the handlers or thrown; a call
\* whose pipeline did not fail produced a value, a call that failed an error
C1_ExactlyOneOutcome ==
    \A c \in DoneCalls :
        /\ Typed(c) \/ Defaulted(c) \/ Errored(c)
        /\ ~(Typed(c) /\ Defaulted(c))
        /\ ~(Typed(c) /\ Errored(c))
        /\ ~(Defaulted(c) /\ Errored(c))
        /\ (c.failure = "none") = (Typed(c) \/ Defaulted(c))
        /\ (c.failure # "none") = Errored(c)

C1_Witness ==
    /\ Len(completed) = 2
    /\ \E c \in DoneCalls : c.failure = "parser" /\ c.result = "undefined"
    /\ \E i \in DOMAIN completed : ~completed[i].failed

\* C2: without a per-call and without a global onError handler every failing
\* call rejects with an ApiDataError of that call and invokes no handler
C2_UnhandledErrorRejects ==
    \A c \in DoneCalls :
        (c.failure # "none" /\ Unhandled(c)) =>
            /\ c.result = "throw"
            /\ c.thrown # NoError
            /\ c.thrown.call = c.id
            /\ ~Dispatched(c)

\* C3: when the per-call handler returns false the global handler is not
\* invoked, nothing is thrown and the call resolves to undefined
C3_FalseStopsHandling ==
    \A c \in DoneCalls :
        (c.failure # "none" /\ c.payload.onError = "false") =>
            /\ Count(c.log, "localOnError") = 1
            /\ ~Has(c.log, "globalOnError")
            /\ ~Has(c.log, "throw")
            /\ c.result = "undefined"
            /\ c.thrown = NoError

C3_Witness ==
    /\ onError
    /\ \E c \in DoneCalls : c.failure = "http" /\ c.payload.onError = "false"

\* C4: when an error is handled with both handlers registered and the
\* per-call handler not returning false, the per-call handler runs first
\* and the global handler next, once each and with the same ApiDataError;
\* with only the global handler registered it alone runs
C4_LocalThenGlobal ==
    \A c \in DoneCalls :
        /\ (Has(c.log, "handleError") /\ onError
                /\ c.payload.onError \in {"true", "undefined"}) =>
            /\ Count(c.log, "localOnError") = 1
            /\ Count(c.log, "globalOnError") = 1
            /\ \E i \in DOMAIN c.log :
                /\ i + 1 \in DOMAIN c.log
                /\ c.log[i].e = "localOnError"
                /\ c.log[i + 1].e = "globalOnError"
                /\ c.log[i].err = c.log[i + 1].err
                /\ c.log[i].depth = c.log[i + 1].depth
                /\ c.log[i].resp = c.log[i + 1].resp
        /\ (Has(c.log, "handleError") /\ onError
                /\ c.payload.onError = "none") =>
            /\ Count(c.log, "globalOnError") = 1
            /\ ~Has(c.log, "localOnError")

C4_Witness ==
    /\ onError
    /\ \E c \in DoneCalls :
        c.failure = "network" /\ c.payload.onError = "undefined"

\* C5: with at least one handler registered a failing call never rejects: a
\* handler is invoked and the call resolves to undefined, at every depth
C5_HandledErrorResolves ==
    \A c \in DoneCalls :
        (c.failure # "none" /\ ~Unhandled(c)) =>
            /\ c.result = "undefined"
            /\ c.thrown = NoError
            /\ ~Has(c.log, "throw")
            /\ Dispatched(c)
            /\ c.depth \in 0..3

\* C6: with calls run one after another, once a call has completed lastError
\* is undefined when the call succeeded and is the ApiDataError of that call
\* when it failed, thrown or handled
C6_LastErrorReflectsCall ==
    NoneInFlight =>
        \A c \in DoneCalls :
            /\ (c.failure = "none") => lastError = NoError
            /\ (c.failure # "none") =>
                /\ lastError # NoError
                /\ lastError.call = c.id
                /\ lastError.depth = c.depth
                /\ lastError.resp = c.response
                /\ (c.result = "throw") => lastError = c.thrown

\* C7: the last-error slot is one slot shared by all calls of the client: it
\* holds what the call that wrote it last left in it (nothing after its
\* reset, its error after its failure), whichever call completed last
C7_LastErrorIsLastWrite ==
    IF \E i \in DOMAIN completed :
            completed[i].id = lastWriter /\ completed[i].stored
    THEN lastError # NoError /\ lastError.call = lastWriter
    ELSE lastError = NoError

C7_Witness ==
    /\ NoneInFlight
    /\ Len(completed) = 2
    /\ completed[1].failed
    /\ ~completed[2].failed
    /\ lastError # NoError
    /\ lastError.call = completed[1].id
    /\ \E c \in DoneCalls : c.id = completed[2].id /\ Typed(c)

\* C8: when formatting fails the transport is not invoked, no observer is
\* invoked, the error has depth 0 and no response, and the call ends with
\* undefined or throws
C8_FormatErrorStopsCall ==
    \A c \in AllCalls :
        c.failure = "format" =>
            /\ c.pc = "done"
            /\ ~Has(c.log, "createResponse")
            /\ ~Has(c.log, "onRequest")
            /\ ~Has(c.log, "onComplete")
            /\ ~Has(c.log, "onResponse")
            /\ ~c.response
            /\ c.depth = 0
            /\ Count(c.log, "handleError") = 1
            /\ \A i \in DOMAIN c.log : c.log[i].depth = 0 /\ ~c.log[i].resp
            /\ c.result = IF Unhandled(c) THEN "throw" ELSE "undefined"
            /\ (c.result = "throw") => (c.thrown.depth = 0 /\ ~c.thrown.resp)

C8_Witness ==
    /\ onRequest /\ onComplete /\ onResponse
    /\ \E c \in DoneCalls : c.failure = "format" /\ c.result = "undefined"

\* what C9 says of a completed call c: onComplete ran exactly once, with the
\* response when there is one, after the transport was invoked and before
\* onResponse and before error handling
CompletedOnce(c) ==
    /\ Count(c.log, "onComplete") = 1
    /\ c.log[Pos(c.log, "onComplete")].resp = c.response
    /\ Has(c.log, "createResponse")
    /\ Pos(c.log, "createResponse") < Pos(c.log, "onComplete")
    /\ Has(c.log, "onResponse") =>
            Pos(c.log, "onComplete") < Pos(c.log, "onResponse")
    /\ \A i \in DOMAIN c.log :
            c.log[i].e \in {"handleError", "localOnError", "globalOnError", "throw"}
                => Pos(c.log, "onComplete") < i

\* C9 as stated: for every call, whether it succeeds or fails, a registered
\* onComplete is invoked exactly once
C9_Original ==
    \A c \in DoneCalls : onComplete => CompletedOnce(c)

\* C10: in one call each observable event happens at most once and in this
\* order: onRequest, createResponse, onComplete, then only for an ok
\* response the store of payload.response, onResponse and the decoding;
\* onResponse is not invoked on a network or HTTP error and only a format
\* error is handled without onComplete before it
C10_EventOrder ==
    \A c \in AllCalls :
        LET P(e) == Pos(c.log, e)
            H(e) == Has(c.log, e)
            passed == /\ c.pc \in {"decoding", "pending", "done"}
                      /\ c.failure # "format"
                      /\ c.thrown # TypeError
        IN  /\ \A e \in {"onRequest", "createResponse", "onComplete", "store",
                         "onResponse", "responseData", "parser"} :
                    Count(c.log, e) <= 1
            /\ H("onRequest") => (H("createResponse") /\ P("onRequest") < P("createResponse"))
            /\ (H("createResponse") /\ onRequest) => H("onRequest")
            /\ H("onComplete") => (passed /\ P("createResponse") < P("onComplete"))
            /\ (passed /\ onComplete) => H("onComplete")
            /\ H("store") => (c.ok /\ passed /\ P("onComplete") < P("store")
                              /\ P("createResponse") < P("store")
                              /\ P("store") < P("responseData"))
            /\ H("onResponse") => (c.ok /\ passed /\ H("responseData")
                                   /\ P("onComplete") < P("onResponse")
                                   /\ P("store") < P("onResponse")
                                   /\ P("onResponse") < P("responseData"))
            /\ (c.ok /\ passed) => /\ H("store") = c.payload.present
                                   /\ H("onResponse") = onResponse
                                   /\ H("responseData")
            /\ (c.error \/ ~c.ok) => ~H("onResponse") /\ ~H("store")
            /\ (H("handleError") /\ c.failure # "format") =>
                    /\ passed
                    /\ onComplete => P("onComplete") < P("handleError")

C10_Witness ==
    /\ onRequest /\ onComplete /\ onResponse
    /\ \E c \in DoneCalls :
        /\ c.result = "parsed"
        /\ c.payload.present
        /\ Has(c.log, "store")
        /\ Pos(c.log, "onRequest") = 1
        /\ Pos(c.log, "onResponse") = 5

\* the promise of request() resolved to undefined
ResolvedUndefined(c) ==
    \/ c.result = "undefined"
    \/ c.result = "default" /\ ~c.payload.defaultValue

\* C11: a call that resolves to undefined found an error, and a call on an
\* ok response that carries nothing resolves to a value that is not
\* undefined
C11_UndefinedMeansError ==
    \A c \in DoneCalls :
        /\ ResolvedUndefined(c) => c.failure # "none"
        /\ (c.ok /\ c.raw = "empty") => ~ResolvedUndefined(c)

\* C12: an ok response with status 204 or with an empty body decodes to the
\* empty string whatever response type is requested, and the call resolves
\* to the default value without an error being handled
C12_NoContentGivesDefault ==
    \A c \in DoneCalls :
        (c.ok /\ (c.status = 204 \/ c.noContent)) =>
            /\ c.raw = "empty"
            /\ c.result = "default"
            /\ c.failure = "none"
            /\ ~Has(c.log, "handleError")
            /\ ~Has(c.log, "parser")

\* responsePromiseHandler settled for a response that is not ok
ClassifiedNotOk ==
    /\ classified # NoClassified
    /\ outcome.promise.kind = "resolve"
    /\ outcome.promise.status \notin 200..299

\* C13: for a response that is not ok the message of the error is the
\* message or title of the body when it has one, else the status text when
\* it is not empty, else "Unknown", and its status is that of the response
C13_MessagePrecedence ==
    ClassifiedNotOk =>
        LET o == outcome.promise
            inBody == (IF o.body.message = "text" THEN {"data.message"} ELSE {})
                        \cup (IF o.body.title = "text" THEN {"data.title"} ELSE {})
        IN  /\ classified.kind = "errorResponse"
            /\ classified.status = o.status
            /\ classified.message \in
                    IF inBody # {} THEN inBody
                    ELSE IF o.statusText # "" THEN {o.statusText}
                    ELSE {"Unknown"}

\* C14: a 404 response with the body {title: "Not Found"} and an empty
\* status text gives an error with the title of the body as its message
C14_TitleOnlyBody ==
    (/\ ClassifiedNotOk
     /\ outcome.promise.status = 404
     /\ outcome.promise.statusText = ""
     /\ outcome.promise.body = Value("json", "text", "absent")) =>
        /\ classified.kind = "errorResponse"
        /\ classified.status = 404
        /\ classified.message = "data.title"

\* C15: a rejection of the transport promise is classified as {error}, an
\* ApiError with status -1 and the message of the reason, or "Network
\* Error" when the reason has none
C15_RejectionIsNetworkError ==
    (classified # NoClassified /\ outcome.promise.kind = "reject") =>
        classified =
            Classified("error", -1,
                       IF outcome.promise.reason = "error"
                       THEN "reason.message" ELSE "Network Error")

\* C16: however the transport promise settles, responsePromiseHandler
\* resolves to {response}, {error, response} or {error}: {response} for an
\* ok response, {error, response} for any other response, {error} when no
\* response was obtained; its promise never rejects
C16_ClassificationNeverThrows ==
    classified # NoClassified =>
        /\ classified.kind \in {"response", "errorResponse", "error"}
        /\ classified.kind = "error" <=> outcome.promise.kind # "resolve"
        /\ classified.kind = "response" =>
                outcome.promise.status \in 200..299

\* C17: ok is true exactly when the status is in 200..299, decoding is
\* entered exactly when ok is true, and a response with any other status
\* ends as an HTTP error of depth 1 that is not decoded as a result
C17_OkIffStatus2xx ==
    \A c \in AllCalls :
        /\ c.response => (c.ok <=> c.status \in 200..299)
        /\ c.pc \in {"decoding", "pending"} => c.ok
        /\ c.pc = "done" => (c.raw # "none" <=> c.ok)
        /\ (c.pc = "done" /\ c.response /\ c.status \notin 200..299) =>
            /\ c.failure = "http"
            /\ c.depth = 1
            /\ c.result \in {"undefined", "throw"}
            /\ \E i \in DOMAIN c.log :
                    /\ c.log[i].e = "handleError"
                    /\ c.log[i].depth = 1
                    /\ c.log[i].resp
            /\ ~Has(c.log, "store")
            /\ ~Has(c.log, "parser")

C17_Witness ==
    \E c \in DoneCalls :
        c.response /\ c.status = 300 /\ ~c.ok /\ c.failure = "http" /\ c.depth = 1

\* C18: with a parser and a decoded payload that is not empty, a parser
\* error is dispatched with depth 2 and the call yields undefined, a parser
\* value is what the call resolves to, no error and no value gives the
\* default value; the parser is not invoked on an empty payload
C18_ParserCases ==
    \A c \in DoneCalls :
        /\ (c.payload.parser /\ c.raw = "value") => Has(c.log, "parser")
        /\ c.raw = "empty" => ~Has(c.log, "parser")
        /\ c.parsed = "error" =>
            /\ c.depth = 2
            /\ c.result = "undefined"
            /\ \A i \in DOMAIN c.log :
                    c.log[i].e = "handleError" => c.log[i].depth = 2
        /\ c.parsed \in {"value", "falsy"} => c.result = "parsed"
        /\ c.parsed = "noValue" => c.result = "default"

\* the depth of the stage a call failed at
StageDepth(failure) ==
    CASE failure = "format" -> 0
      [] failure \in {"network", "http"} -> 1
      [] failure = "parser" -> 2
      [] failure = "decode" -> 3

\* C19: the error of a failed call that is passed to a handler, thrown to
\* the caller or stored in lastError carries the depth of the stage that
\* failed, whichever handlers are registered
C19_DepthIsStage ==
    \A c \in DoneCalls :
        (c.failure # "none" /\ c.thrown # TypeError) =>
            /\ \A i \in DOMAIN c.log :
                    c.log[i].e \in {"localOnError", "globalOnError", "throw"}
                        => c.log[i].depth = StageDepth(c.failure)
            /\ c.thrown # NoError => c.thrown.depth = StageDepth(c.failure)
            /\ lastError.call = c.id =>
                    lastError.depth = StageDepth(c.failure)

\* C20: in each representation, after setHeaderValue(k, v, h) with a value
\* that is not empty getHeaderValue(h, k') is v for every case variant k' of
\* k, and h has no more headers than before when it held the key
C20_SetThenGet ==
    (written # NoWrite /\ written.value # "") =>
        /\ \A key \in HeaderNames :
                ToLowerCase(key) = ToLowerCase(written.key) =>
                    GetHeaderValue(headers, key) = written.value
        /\ written.had => Len(headers.entries) <= written.count

\* C21: setHeaderValue(k, v, h) with an empty, null or undefined value
\* removes the key: afterwards getHeaderValue(h, k') is null for every case
\* variant k' of k in each representation, every other header reads as
\* before, and h is unchanged when it did not hold the key
C21_EmptyValueRemoves ==
    [][(written'.key # "" /\ written'.value = "") =>
            /\ \A key \in HeaderNames :
                    IF ToLowerCase(key) = ToLowerCase(written'.key)
                    THEN GetHeaderValue(headers', key) = "null"
                    ELSE GetHeaderValue(headers', key)
                            = GetHeaderValue(headers, key)
            /\ ~written'.had => headers' = headers]_vars

\* C22: after setContentType(t, h) with a type t without 'charset=' the
\* Content-Type header is 't; charset=<client charset>', under the key h
\* held already, and getContentTypeAndCharset(h) is
\* [t, 'charset=<client charset>']; a type with 'charset=' is stored as it
\* is; without a Content-Type header getContentTypeAndCharset(h) is
\* ['', undefined]
C22_ContentTypeAndCharset ==
    /\ contentType.set =>
            /\ (contentType.type # ""
                    /\ ~Includes(contentType.type, "charset=")) =>
                    /\ GetContentType(headers)
                            = contentType.type \o "; charset=" \o charset
                    /\ GetContentTypeAndCharset(headers)
                            = <<contentType.type, "charset=" \o charset>>
            /\ Includes(contentType.type, "charset=") =>
                    GetContentType(headers) = contentType.type
            /\ written.had => Len(headers.entries) = written.count
    /\ GetContentType(headers) = "null" =>
            GetContentTypeAndCharset(headers) = <<"", "undefined">>

\* C30: buildUrl(path) is path when path contains '://' or the client has
\* no base url, and the base url followed by path otherwise
C30_BuildUrl ==
    built.done =>
        IF Includes(built.url, "://") \/ baseUrl = NoBaseUrl
        THEN built.result = built.url
        ELSE built.result = baseUrl \o built.url

\* a path is built on a base url
C30_Witness ==
    /\ built.done
    /\ baseUrl = "http://localhost"
    /\ built.url = "/Customer/CountryList/11"
    /\ built.result = "http://localhost/Customer/CountryList/11"

\* C23: for PATCH, POST and PUT, formatData of a plain object that can be
\* serialised returns its JSON text, which names every defined field, and
\* sets the content type to JSON when none is set; an array with a JSON-like
\* content type gives a JSON array text and the headers keep that type; the
\* query parameters are as before
C23_BodyVerbsGiveJson ==
    (formatted.done /\ formatted.method \in BodyMethods) =>
        LET data == formatted.data
            type == GetContentTypeAndCharset(headers)[1]
        IN  /\ (data.kind = "Object" /\ ~StringifyThrows(data)) =>
                    /\ formatted.error = "none"
                    /\ formatted.body = Body("string", JSONStringify(data))
                    /\ \A i \in DOMAIN data.fields :
                            data.fields[i][2].t # "undefined" =>
                                Includes(formatted.body.text,
                                         "\"" \o data.fields[i][1] \o "\":")
                    /\ formatted.local = "" => type = "application/json"
                    /\ localParams = formatted.paramsBefore
            /\ (data.kind = "Array" /\ IsJSONContentType(formatted.local)) =>
                    /\ formatted.error = "none"
                    /\ formatted.body.kind = "string"
                    /\ StartsWith(formatted.body.text, "[")
                    /\ EndsWith(formatted.body.text, "]")
                    /\ type = Trim(Split(formatted.local, ";")[1])
                    /\ localParams = formatted.paramsBefore

\* C24: for GET, HEAD, DELETE and OPTIONS a payload together with query
\* parameters is a formatting error: formatData returns an error and leaves
\* the query parameters as they are, the call ends at depth 0, not 1, and
\* the transport is not called
C24_ParamsWithData ==
    (/\ formatted.done
     /\ formatted.method \notin BodyMethods
     /\ formatted.data # NoData
     /\ formatted.paramsBefore # << >>) =>
        /\ formatted.error # "none"
        /\ formatted.body = NoBody
        /\ localParams = formatted.paramsBefore
        /\ formatted.depth = 0
        /\ ~formatted.sent

\* a GET with a payload and a query parameter
C24_Witness ==
    /\ formatted.done
    /\ formatted.method = "GET"
    /\ formatted.data.kind = "Object"
    /\ formatted.paramsBefore = <<<<"page", "1">>>>
    /\ formatted.error = "params"
    /\ ~formatted.sent

\* the last value a payload gives to a key
LastValue(fields, key) ==
    fields[CHOOSE i \in DOMAIN fields :
                /\ fields[i][1] = key
                /\ \A j \in (i + 1)..Len(fields) : fields[j][1] # key][2]

\* the number of entries of a key in the query parameters
ParamCount(p, key) == Cardinality({i \in DOMAIN p : p[i][1] = key})

\* C25: for GET, HEAD, DELETE and OPTIONS without query parameters, the
\* entries of a URLSearchParams payload are set in the query parameters key
\* by key; of a plain object of scalars every field that is not null or
\* undefined is set as its text, once, and the null and undefined ones are
\* left out; any other payload is a type error.  Where formatData succeeds
\* the body is undefined and the url holds key=value of every entry set
C25_DataBecomesParams ==
    (/\ formatted.done
     /\ formatted.method \notin BodyMethods
     /\ formatted.data # NoData
     /\ formatted.paramsBefore = << >>) =>
        LET data == formatted.data
            accepted == data.kind = "URLSearchParams" \/ IsSimpleObject(data)
        IN  /\ accepted =>
                /\ formatted.error = "none"
                /\ formatted.body = NoBody
                /\ formatted.sent
                /\ \A i \in DOMAIN data.fields :
                        LET key == data.fields[i][1]
                            value == LastValue(data.fields, key)
                        IN  IF value.t \in {"null", "undefined"}
                            THEN ParamGet(localParams, key) = "null"
                            ELSE /\ ParamGet(localParams, key) = value.v
                                 /\ ParamCount(localParams, key) = 1
                /\ \A i \in DOMAIN localParams :
                        Includes(formatted.localUrl,
                                 localParams[i][1] \o "=" \o localParams[i][2])
            /\ ~accepted =>
                /\ formatted.error = "type"
                /\ localParams = << >>
                /\ ~formatted.sent

\* a GET with {id: 2, age: null, other: undefined, ok: true} on /x
C25_Witness ==
    /\ formatted.done
    /\ formatted.method = "GET"
    /\ formatted.url = "/x"
    /\ \E i \in DOMAIN formatted.data.fields :
            formatted.data.fields[i] = <<"age", Field("null", "")>>
    /\ localParams = <<<<"id", "2">>, <<"ok", "true">>>>
    /\ formatted.localUrl = "/x?id=2&ok=true"
    /\ formatted.body = NoBody

\* the value an object holds under exactly this key, "undefined" for none
Property(entries, key) ==
    IF \E i \in DOMAIN entries : entries[i][1] = key
    THEN entries[CHOOSE i \in DOMAIN entries : entries[i][1] = key][2]
    ELSE "undefined"

PropertyKeys(entries) == {entries[i][1] : i \in DOMAIN entries}

\* C26: mergeConfig puts a scalar of the default configuration into the
\* override only when the override has no such key, so a falsy value of the
\* override stays; a key the default configuration holds as null or
\* undefined, or does not hold, is in the override as before
C26_ScalarDefaults ==
    merged.done =>
        \A k \in ConfigKeys :
            LET default == merged.before[k]
                override == merged.override[k]
            IN  /\ default.t = "scalar" =>
                    merged.effective[k]
                        = IF override.t # "absent" THEN override ELSE default
                /\ default.t \in {"null", "absent"} =>
                    merged.effective[k] = override

\* the override keeps '' for credentials where the default is 'include',
\* and its timeout, which the default configuration does not have
C26_Witness ==
    /\ merged.done
    /\ merged.before["credentials"] = Scalar("include")
    /\ merged.override["credentials"] = Scalar("")
    /\ merged.effective["credentials"] = Scalar("")
    /\ merged.before["timeout"] = Absent
    /\ merged.effective["timeout"] = Scalar("0")

\* C27: for a key the default configuration holds as an object, mergeConfig
\* puts a new object into the override: the properties of the default's
\* object with those of the override's on top, so a key both have has the
\* value of the override; the call goes on with the override: its headers
\* are the ones that are sent
C27_ObjectDefaults ==
    merged.done =>
        \A k \in ConfigKeys :
            LET default == merged.before[k]
                override == merged.override[k]
                effective == merged.effective[k]
            IN  default.t = "object" =>
                    /\ effective.t = "object"
                    /\ effective.own = "new"
                    /\ PropertyKeys(effective.h.entries)
                        = PropertyKeys(Spread(default))
                            \cup PropertyKeys(Spread(override))
                    /\ \A key \in PropertyKeys(effective.h.entries) :
                            Property(effective.h.entries, key)
                                = IF key \in PropertyKeys(Spread(override))
                                  THEN Property(Spread(override), key)
                                  ELSE Property(Spread(default), key)
                    /\ k = "headers" =>
                            \A name \in HeaderNames \ {"ct", "Ct", "CT"} :
                                GetHeaderValue(merged.headers, name)
                                    = GetHeaderValue(effective.h, name)

\* the header x of the call replaces the one of the client in what is sent
C27_Witness ==
    /\ merged.done
    /\ merged.before["headers"]
        = Object(HeadersOf("object", <<<<"x", "v1">>>>), "default")
    /\ merged.override["headers"]
        = Object(HeadersOf("object", <<<<"x", "v2">>>>), "override")
    /\ merged.headers.rep = "object"
    /\ GetHeaderValue(merged.headers, "x") = "v2"
    /\ Len(merged.effective["headers"].h.entries) = 1

\* C28: a call leaves the default configuration of the client as it was,
\* whatever its verb and payload, and merging the same override again, or
\* the merged one, gives the same configuration
C28_DefaultUnchanged ==
    merged.done =>
        /\ config = merged.before
        /\ MergeConfig(config, merged.override) = merged.effective
        /\ MergeConfig(config, merged.effective) = merged.effective

\* a POST of an object without headers of its own, on a client whose
\* headers have no content type: the headers sent have one, the client's
\* have none
C28_Witness ==
    /\ merged.done
    /\ merged.method = "POST"
    /\ merged.data.kind = "Object"
    /\ merged.override["headers"] = Absent
    /\ config["headers"]
        = Object(HeadersOf("object", <<<<"x", "v1">>>>), "default")
    /\ GetContentTypeAndCharset(merged.headers)[1] = "application/json"
    /\ GetContentType(config["headers"].h) = "null"

\* C29: the headers of the default configuration merged with those of a
\* call hold a name once, whatever its case, with the value of the call when
\* the call has the name, and with the value of the default otherwise, in
\* each representation of the default headers
C29_CaseInsensitiveMerge ==
    (merged.done /\ merged.before["headers"].t = "object") =>
        LET default == merged.before["headers"].h
            override == merged.override["headers"].h
            effective == merged.effective["headers"].h
        IN  \A name \in {"ct", "x"} :
                /\ GetHeaderValue(override, name) # "null" =>
                        /\ GetHeaderValue(effective, name)
                            = GetHeaderValue(override, name)
                        /\ Cardinality({i \in DOMAIN effective.entries :
                                ToLowerCase(effective.entries[i][1]) = name})
                            = 1
                /\ (/\ GetHeaderValue(override, name) = "null"
                    /\ GetHeaderValue(default, name) # "null") =>
                        GetHeaderValue(effective, name)
                            = GetHeaderValue(default, name)

\* C31: the url the transport is called with is the path with its query
\* string when the call is local, when it holds '://' or when the client has
\* no base url, and the base url followed by it otherwise; the url of the
\* Call Record is the path with its query string, whatever the base url is
C31_TransportUrl ==
    formatted.done =>
        LET query == ParamsToString(localParams)
            path == IF query = "" THEN formatted.url
                    ELSE IF Includes(formatted.url, "?")
                    THEN formatted.url \o "&" \o query
                    ELSE formatted.url \o "?" \o query
        IN  /\ formatted.localUrl = path
            /\ formatted.sent =>
                    formatted.api =
                        IF formatted.isLocal \/ Includes(path, "://")
                           \/ baseUrl \in {NoBaseUrl, ""}
                        THEN path
                        ELSE baseUrl \o path
            /\ ( /\ baseUrl \notin {NoBaseUrl, ""}
                 /\ ~StartsWith(formatted.url, baseUrl) )
                    => ~StartsWith(formatted.localUrl, baseUrl)

\* a local call with query parameters was sent by a client with a base url:
\* the transport got the path with its query string
C31_Witness ==
    /\ formatted.done
    /\ formatted.sent
    /\ baseUrl = "http://localhost"
    /\ formatted.isLocal
    /\ formatted.url = "/x?y=1"
    /\ localParams # << >>
    /\ formatted.api = formatted.localUrl

\* C32: after authorize with a token the Authorization header of the
\* container it was given, or of the default headers of the client when it
\* was given none, reads the scheme name, a space and the token, and after
\* authorize with an empty token there is no such header; a container given
\* leaves the default configuration as it was; without one the client has
\* default headers afterwards and a call made then without an Authorization
\* header of its own sends the value
C32_Authorize ==
    authorized.done =>
        LET name == IF authorized.scheme.t = "string"
                    THEN authorized.scheme.v ELSE "Bearer"
            expected == IF authorized.token = "" THEN "null"
                        ELSE name \o " " \o authorized.token
            own == IF merged.override["headers"].t = "object"
                   THEN merged.override["headers"].h ELSE NoHeaders
        IN  IF authorized.supplied
            THEN /\ GetHeaderValue(headers, "Authorization") = expected
                 /\ merged.done \/ config = authorized.before
            ELSE /\ config["headers"].t = "object"
                 /\ ~merged.done =>
                        GetHeaderValue(config["headers"].h, "Authorization")
                            = expected
                 /\ ( /\ merged.done
                      /\ GetHeaderValue(own, "Authorization") = "null" )
                        => GetHeaderValue(merged.headers, "Authorization")
                            = expected

\* the text of the content-length header of the container, "null" for none
HeldContentLength ==
    IF \E i \in DOMAIN headers.entries :
            headers.entries[i][1] \in {"content-length", "Content-Length"}
    THEN LET i == CHOOSE i \in DOMAIN headers.entries :
                    headers.entries[i][1]
                        \in {"content-length", "Content-Length"}
         IN  headers.entries[i][2]
    ELSE "null"

\* C40: getContentLength gives the content-length header, held under any
\* case of its name, as an integer, and undefined when the container has
\* no such header, when the header is empty and when its text is no number
C40_ContentLength ==
    contentLength.done =>
        contentLength.result =
            CASE HeldContentLength \in {"null", "", " ", "abc"} -> Undefined
              [] HeldContentLength = "0" -> Number(0)
              [] HeldContentLength = "123" -> Number(123)
              [] HeldContentLength = " 42" -> Number(42)
              [] HeldContentLength = "-5" -> Number(0 - 5)
              [] HeldContentLength = "+7" -> Number(7)
              [] OTHER -> contentLength.result

\* C39: for PATCH, POST and PUT, formatData of a boxed string returns the
\* string as it is, without an error, and the headers then hold the content
\* type of the call: the override, else the content type the headers held,
\* else JSON for a text in braces, else XML for a text in angle brackets
C39_StringContentType ==
    (/\ formatted.done
     /\ formatted.method \in BodyMethods
     /\ formatted.data.kind = "String") =>
        LET text == formatted.data.text
            chosen ==
                IF formatted.type # "" THEN formatted.type
                ELSE IF formatted.local # "" THEN formatted.local
                ELSE IF StartsWith(text, "{") /\ EndsWith(text, "}")
                THEN "application/json"
                ELSE IF StartsWith(text, "<") /\ EndsWith(text, ">")
                THEN "application/xml"
                ELSE ""
        IN  /\ formatted.error = "none"
            /\ formatted.body = Body("data", "")
            /\ GetContentTypeAndCharset(headers)[1]
                    = Trim(Split(chosen, ";")[1])
            /\ localParams = formatted.paramsBefore

\* C38: formatData returns for every verb and payload; a payload of a
\* PATCH, POST or PUT that cannot be written as JSON gives an error as
\* second element and no body, and any error formatData returns ends the
\* call at depth 0 before the transport is called
C38_FormatNeverThrows ==
    formatted.done =>
        LET data == formatted.data
            circular == \E i \in DOMAIN data.fields :
                            data.fields[i][2].t = "circular"
        IN  /\ formatted.error \in {"none", "exception", "params", "type"}
            /\ ( /\ formatted.method \in BodyMethods
                 /\ data.kind \in {"Object", "Array"}
                 /\ data.kind = "Object" \/ IsJSONContentType(formatted.local)
                 /\ circular )
                    => formatted.error = "exception"
            /\ formatted.error # "none" =>
                    /\ formatted.body = NoBody
                    /\ formatted.depth = 0
                    /\ ~formatted.sent
            /\ formatted.error = "none" => formatted.sent

\* a POST of an object that refers to itself
C38_Witness ==
    /\ formatted.done
    /\ formatted.method = "POST"
    /\ formatted.data.kind = "Object"
    /\ \E i \in DOMAIN formatted.data.fields :
            formatted.data.fields[i][2].t = "circular"
    /\ formatted.error = "exception"
    /\ formatted.body = NoBody
    /\ formatted.depth = 0

\* C37: a call whose response is not ok and whose body cannot be read as
\* JSON for the error message, because it is no JSON or empty, ends as an
\* HTTP error: depth 1, the status of the response, error handling entered
\* once with the response; nothing of it has depth 3, the result is not
\* decoded, and what the caller gets is undefined or the ApiDataError of
\* depth 1; the message of the error of such a response is its status text
\* when it has one
C37_ErrorBodySwallowed ==
    \A c \in AllCalls :
        (c.pc = "done" /\ c.errorBody \in {"throws", "empty"}) =>
            /\ c.failure = "http"
            /\ c.depth = 1
            /\ c.response /\ ~c.ok
            /\ c.status \in statuses \ (200..299)
            /\ c.raw = "none"
            /\ Count(c.log, "handleError") = 1
            /\ \A i \in DOMAIN c.log : c.log[i].depth # 3
            /\ \/ c.result = "undefined" /\ c.thrown = NoError
               \/ c.result = "throw"
                    /\ c.thrown = ApiDataError(c.id, 1, 1, TRUE)
            /\ \A t \in Transports,
                  b \in {EmptyBody, Value("text", "absent", "absent")} :
                    ErrorMessage(t, TransportOutcome("resolve", "none",
                                        c.status, "statusText", b))
                        = "statusText"

\* a 404 whose body is no JSON ended at depth 1 with its error thrown
C37_Witness ==
    \E c \in DoneCalls :
        /\ c.errorBody = "throws"
        /\ c.status = 404
        /\ c.depth = 1
        /\ c.result = "throw"

\* C36: the ApiDataError of a failed call, as its handlers get it, as it is
\* thrown to the caller and as lastError holds it, belongs to that call and
\* carries a response exactly when one was obtained: none for a format
\* error and a network failure, the response for an HTTP error, a parser
\* error and a decode exception
C36_ErrorCarriesResponse ==
    \A c \in AllCalls :
        (c.pc = "done" /\ c.failure # "none") =>
            LET obtained == c.failure \in {"http", "parser", "decode"}
            IN  /\ c.response = obtained
                /\ \A i \in DOMAIN c.log :
                        c.log[i].e \in {"handleError", "localOnError",
                                        "globalOnError", "throw"}
                            => c.log[i].resp = obtained
                /\ c.thrown \notin {NoError, TypeError} =>
                        /\ c.thrown.call = c.id
                        /\ c.thrown.resp = obtained
                /\ (lastWriter = c.id /\ lastError # NoError) =>
                        /\ lastError.call = c.id
                        /\ lastError.resp = obtained

\* the parser of the second call returned an error: lastError holds the
\* error of that call, with its response
C36_Witness ==
    \E c \in DoneCalls :
        /\ c.failure = "parser"
        /\ c.id = 2
        /\ lastError.call = c.id
        /\ lastError.resp

\* C35: in every call, at whatever stage it fails and whatever handlers
\* are registered, error handling is entered at most once, the per-call and
\* the global handler are each invoked at most once, and the error thrown
\* to the caller and the one lastError holds is the first ApiDataError of
\* the call, which wraps the error that made it fail
C35_ErrorHandledOnce ==
    \A c \in AllCalls :
        /\ Count(c.log, "handleError") <= 1
        /\ Count(c.log, "localOnError") <= 1
        /\ Count(c.log, "globalOnError") <= 1
        /\ Count(c.log, "throw") <= 1
        /\ c.thrown \notin {NoError, TypeError} => c.thrown.n = 1
        /\ (c.pc = "done" /\ lastWriter = c.id /\ lastError # NoError)
                => lastError.n = 1

\* C33: a call that was made settles: when every promise it awaits settles,
\* in whatever way, the call ends, its promise resolved or rejected
C33_EveryCallSettles ==
    \A s \in Slots : InFlight(s) ~> calls[s].pc = "done"

\* what a call gives when it runs alone on the client, from the start of
\* request() to its end, with the inputs and the transport outcome of the
\* call c: its events, with the Call Record's depth and the error passed
\* in each, the depth at its end, how its promise settles and with which
\* error
Alone(c) ==
    LET local == c.payload.onError
        H(le, n, depth, resp) ==
            HandleError(le, c.id, n, depth, resp, local, onError)
        Failed(events, depth, h) ==
            [log |-> events \o h.events, depth |-> depth,
             result |-> IF h.thrown THEN "throw" ELSE "undefined",
             thrown |-> IF h.thrown THEN h.error ELSE NoError]
        Returned(events, result) ==
            [log |-> events, depth |-> -1, result |-> result,
             thrown |-> NoError]
        sent == DispatchRequestCallback(onRequest)
                    \o <<Ev("createResponse", -1, FALSE, 0)>>
        read == <<Ev("responseData", -1, TRUE, 0)>>
        complete == DispatchCompleteCallback(onComplete, c.response)
        decoding == sent \o complete \o StoreResponse(c.payload)
                        \o DispatchResponseCallback(onResponse, TRUE) \o read
        parsing == decoding \o <<Ev("parser", -1, TRUE, 0)>>
        first == H(NoError, 1, 2, TRUE)
    IN  IF c.failure = "format"
        THEN Failed(<< >>, 0, H(NoError, 1, 0, FALSE))
        ELSE IF c.thrown = TypeError
        THEN [log |-> sent, depth |-> -1, result |-> "throw",
              thrown |-> TypeError]
        ELSE IF c.failure \in {"network", "http"}
        THEN Failed(sent \o (IF c.errorBody # "none" THEN read ELSE << >>)
                         \o complete,
                    1, H(NoError, 1, 1, c.response))
        ELSE IF c.raw = "throws"
        THEN Failed(decoding, 3, H(NoError, 1, 3, TRUE))
        ELSE IF c.raw = "empty"
        THEN Returned(decoding, "default")
        ELSE IF ~c.payload.parser
        THEN Returned(decoding, "value")
        ELSE IF c.parsed = "throws"
        THEN Failed(parsing, 3, H(NoError, 1, 3, TRUE))
        ELSE IF c.parsed = "error"
        THEN IF first.thrown
             THEN Failed(parsing \o first.events, 3,
                         H(first.lastError, 2, 3, TRUE))
             ELSE Failed(parsing, 2, first)
        ELSE IF c.parsed = "value"
        THEN Returned(parsing, "parsed")
        ELSE Returned(parsing, "default")

====
